---------------------------- MODULE Spec2Model ----------------------------
(***************************************************************************)
(* A model of the Scheme interpreter: the state-function lexer             *)
(* (pkg/lexer), the quote-level parser (pkg/parser) and the tree-walking   *)
(* evaluator and REPL (pkg/interpreter, cmd/interpreter).                  *)
(*                                                                         *)
(* A Go string is a sequence of one-character strings.  Go offsets are     *)
(* 0-based: the rune at Go offset i of s is s[i+1], and s[a:b] is          *)
(* SubSeq(s, a+1, b).  Inputs are ASCII, so every rune has width 1.        *)
(***************************************************************************)
EXTENDS Integers, Sequences, FiniteSets, TLC

(***************************************************************************)
(* Runes                                                                   *)
(***************************************************************************)

\* const eof rune = -1
eof == "EOF"

\* The backquote rune (U+0060) of the error messages
bq == "U+0060"

\* unicode.IsSpace on the runes of the inputs
IsSpace(r) == r \in {" ", "\n", "\t", "\r"}

\* unicode.IsLetter on the runes of the inputs
IsLetter(r) ==
    r \in {"a","b","c","d","e","f","g","h","i","j","k","l","m","n","o","p",
           "q","r","s","t","u","v","w","x","y","z"}

\* strings.ContainsRune(valid, r); eof is in no string
ContainsRune(valid, r) == r # eof /\ \E i \in 1..Len(valid) : valid[i] = r

\* strings.HasPrefix(s[pos:], c) for a one-rune prefix c
HasPrefixAt(s, pos, c) == pos < Len(s) /\ s[pos + 1] = c

(***************************************************************************)
(* Lexer (src/unnamed/part_002, package lexer)                             *)
(***************************************************************************)

\* tokens: make(chan Token, 2)
ChanCap == 2

Token(typ, val) == [Typ |-> typ, Val |-> val]

\* NewLexer: the fields of the Lexer struct; blocked records a send on a
\* full channel, on which the single goroutine would block for ever
NewLexer(input) ==
    [input |-> input, start |-> 0, pos |-> 0, width |-> 0,
     state |-> "lexGeneral", level |-> 0, tokens |-> <<>>, blocked |-> FALSE]

\* Send as it would be on a channel that holds one token; C22 tells the two
\* apart
SendOne(l, tok) ==
    IF Len(l.tokens) >= 1
    THEN [l EXCEPT !.blocked = TRUE]
    ELSE [l EXCEPT !.tokens = Append(@, tok)]

\* l.tokens <- tok
Send(l, tok) ==
    IF Len(l.tokens) >= ChanCap
    THEN [l EXCEPT !.blocked = TRUE]
    ELSE [l EXCEPT !.tokens = Append(@, tok)]

\* emit: sends the slice input[start:pos], then start = pos
emit(l, t) ==
    [Send(l, Token(t, SubSeq(l.input, l.start + 1, l.pos))) EXCEPT !.start = l.pos]

\* next: the rune read (or eof) and the lexer after it
LexNext(l) ==
    IF l.pos >= Len(l.input)
    THEN [l |-> [l EXCEPT !.width = 0], r |-> eof]
    ELSE [l |-> [l EXCEPT !.width = 1, !.pos = @ + 1], r |-> l.input[l.pos + 1]]

ignore(l) == [l EXCEPT !.start = l.pos]

backup(l) == [l EXCEPT !.pos = @ - l.width]

\* peek: next then backup
peek(l) == LET n == LexNext(l) IN [l |-> backup(n.l), r |-> n.r]

\* errorf: sends an error token and returns the nil state
errorf(l, msg) == [l |-> Send(l, Token("TokenError", msg)), st |-> "nil"]

\* accept: consumes the next rune if it is in valid
accept(l, valid) ==
    LET n == LexNext(l)
    IN  IF ContainsRune(valid, n.r)
        THEN [l |-> n.l, ok |-> TRUE]
        ELSE [l |-> backup(n.l), ok |-> FALSE]

\* acceptRun: consumes runes while they are in valid, counts them
RECURSIVE acceptRunFrom(_, _, _)
acceptRunFrom(l, valid, cnt) ==
    LET n == LexNext(l)
    IN  IF ContainsRune(valid, n.r)
        THEN acceptRunFrom(n.l, valid, cnt + 1)
        ELSE [l |-> backup(n.l), cnt |-> cnt]

acceptRun(l, valid) == acceptRunFrom(l, valid, 0)

\* The texts of the lexer's error tokens
LexerMsg ==
    [ ExpectedClose |->
        <<"e","x","p","e","c","t","e","d"," ","a"," ",bq,")",bq," ","t",
          "o"," ","c","l","o","s","e"," ",bq,"(",bq>>
    , UnexpectedClose |->
        <<"r","e","a","d","-","s","y","n","t","a","x",":"," ","u","n",
          "e","x","p","e","c","t","e","d"," ",bq,")",bq>>
    , ExpectedQuote |->
        <<"e","x","p","e","c","t","e","d"," ","a"," ",bq,"\"",bq," ",
          "t","o"," ","c","l","o","s","e"," ",bq,"\"",bq>>
    ]

Digits == <<"0","1","2","3","4","5","6","7","8","9">>

\* extAlpha := "+-.*/<=>!?:$%_&~^"
extAlpha ==
    <<"+","-",".","*","/","<","=",">","!","?",":","$","%","_","&","~","^">>

\* Each state function returns the lexer after it and the next state
\* function (st); NextToken stores st in l.state.

lexOpenBracket(l) ==
    [l |-> emit([l EXCEPT !.pos = @ + 1, !.level = @ + 1], "TokenOpenBracket"),
     st |-> "lexGeneral"]

RECURSIVE lexGeneral(_)
lexGeneral(l) ==
    IF HasPrefixAt(l.input, l.pos, ")") THEN [l |-> l, st |-> "lexCloseBracket"]
    ELSE IF HasPrefixAt(l.input, l.pos, "(") THEN [l |-> l, st |-> "lexOpenBracket"]
    ELSE LET n == LexNext(l)
         IN  CASE n.r = eof ->
                    IF n.l.level > 0
                    THEN errorf(emit(n.l, "TokenEOF"), LexerMsg.ExpectedClose)
                    ELSE [l |-> emit(n.l, "TokenEOF"), st |-> "lexGeneral"]
               [] IsSpace(n.r) -> lexGeneral(ignore(n.l))
               [] n.r = "\"" -> [l |-> n.l, st |-> "lexDoubleQuote"]
               [] n.r = "'" -> [l |-> backup(n.l), st |-> "lexQuote"]
               [] n.r \in {"+", "-", "."} \/ ContainsRune(Digits, n.r) ->
                    [l |-> backup(n.l), st |-> "lexNumber"]
               [] OTHER -> [l |-> n.l, st |-> "lexIdentifier"]

lexNumber(l) ==
    LET s  == accept(l, <<"+", "-">>)
        r1 == acceptRun(s.l, Digits)
        d  == accept(r1.l, <<".">>)
        r2 == acceptRun(d.l, Digits)
        l2 == IF d.ok THEN r2.l ELSE d.l
        cnt == IF d.ok THEN r1.cnt + 1 + r2.cnt ELSE r1.cnt
        pk == peek(l2)
    IN  IF IsLetter(pk.r) \/ ContainsRune(extAlpha, pk.r)
        THEN [l |-> pk.l, st |-> "lexIdentifier"]
        ELSE IF s.ok /\ cnt = 0
        THEN [l |-> emit(pk.l, "TokenIdentifier"), st |-> "lexGeneral"]
        ELSE [l |-> emit(pk.l, "TokenNumber"), st |-> "lexGeneral"]

\* lexCloseBracket as it would be if the level were decremented at level 0
\* too; C23 tells the two apart
lexCloseBracketAnyLevel(l) ==
    LET e == emit(LexNext(l).l, "TokenCloseBracket")
    IN  IF e.level > 0
        THEN [l |-> [e EXCEPT !.level = @ - 1], st |-> "lexGeneral"]
        ELSE errorf([e EXCEPT !.level = @ - 1], LexerMsg.UnexpectedClose)

lexCloseBracket(l) ==
    LET e == emit(LexNext(l).l, "TokenCloseBracket")
    IN  IF e.level > 0
        THEN [l |-> [e EXCEPT !.level = @ - 1], st |-> "lexGeneral"]
        ELSE errorf(e, LexerMsg.UnexpectedClose)

RECURSIVE lexDoubleQuote(_)
lexDoubleQuote(l) ==
    LET n == LexNext(l)
    IN  IF n.r = "\"" THEN [l |-> emit(n.l, "TokenString"), st |-> "lexGeneral"]
        ELSE IF n.r = eof THEN errorf(n.l, LexerMsg.ExpectedQuote)
        ELSE lexDoubleQuote(n.l)

lexQuote(l) ==
    [l |-> emit([l EXCEPT !.pos = @ + 1], "TokenQuote"), st |-> "lexGeneral"]

RECURSIVE lexIdentifier(_)
\* lexIdentifier as it would be if the end of the input ended an identifier
\* as whitespace does; C30 tells the two apart
lexIdentifierToEof(l) ==
    LET n == LexNext(l)
    IN  IF n.r = eof \/ IsSpace(n.r) \/ n.r = ")"
        THEN [l |-> emit(backup(n.l), "TokenIdentifier"), st |-> "lexGeneral"]
        ELSE lexIdentifier(n.l)

lexIdentifier(l) ==
    LET n == LexNext(l)
    IN  IF n.r = eof THEN errorf(n.l, LexerMsg.ExpectedClose)
        ELSE IF IsSpace(n.r) \/ n.r = ")"
        THEN [l |-> emit(backup(n.l), "TokenIdentifier"), st |-> "lexGeneral"]
        ELSE lexIdentifier(n.l)

\* l.state = l.state(l), or lexGeneral when the state is nil
RunState(l) ==
    IF l.state = "nil" THEN [l EXCEPT !.state = "lexGeneral"]
    ELSE LET Store(r) == [r.l EXCEPT !.state = r.st]
         IN  Store(CASE l.state = "lexGeneral" -> lexGeneral(l)
                     [] l.state = "lexOpenBracket" -> lexOpenBracket(l)
                     [] l.state = "lexCloseBracket" -> lexCloseBracket(l)
                     [] l.state = "lexNumber" -> lexNumber(l)
                     [] l.state = "lexDoubleQuote" -> lexDoubleQuote(l)
                     [] l.state = "lexQuote" -> lexQuote(l)
                     [] l.state = "lexIdentifier" -> lexIdentifier(l))

\* The value NextToken returns for nothing (a nil *Token)
NilToken == Token("nil", <<>>)

\* NextToken: receives from the channel if it holds a token (nil for the
\* EOF token), and otherwise runs the state function and tries again.
\* A lexer blocked on a full channel returns nothing at all (tok "blocked").
RECURSIVE NextToken(_)
NextToken(l) ==
    IF l.blocked THEN [l |-> l, tok |-> Token("blocked", <<>>)]
    ELSE IF l.tokens # <<>>
    THEN LET token == Head(l.tokens)
             l2 == [l EXCEPT !.tokens = Tail(@)]
         IN  IF token.Typ = "TokenEOF" THEN [l |-> l2, tok |-> NilToken]
             ELSE [l |-> l2, tok |-> token]
    ELSE NextToken(RunState(l))

(***************************************************************************)
(* Expressions (src/unnamed/part_005, package parser)                      *)
(*                                                                         *)
(* Every expression is a record of one shape.  t is the Go type; n/d is    *)
(* Number.Val as a fraction in lowest terms; s is Variable.Val,            *)
(* Symbol.val, Lambda.Name, the name of Procedure.Fn or the SpecialType;   *)
(* q is the qlevel; l is ExprList.Lst or Lambda.Params.Lst; b is           *)
(* Lambda.Body.Lst.                                                        *)
(***************************************************************************)

Expr(t, n, d, s, q, l, b) ==
    [t |-> t, n |-> n, d |-> d, s |-> s, q |-> q, l |-> l, b |-> b]

Number(n, d, q) == Expr("Number", n, d, <<>>, q, <<>>, <<>>)
Variable(val) == Expr("Variable", 0, 1, val, 0, <<>>, <<>>)
ExprList(lst, q) == Expr("ExprList", 0, 1, <<>>, q, lst, <<>>)
Procedure(fn) == Expr("Procedure", 0, 1, <<fn>>, 0, <<>>, <<>>)
Lambda(name, params, body) == Expr("Lambda", 0, 1, name, 0, params, body)
Symbol(val, q) == Expr("Symbol", 0, 1, val, q, <<>>, <<>>)
SpecialExpr(typ) == Expr("SpecialExpr", 0, 1, <<typ>>, 0, <<>>, <<>>)

\* var NullSym, FalseSym, TrueSym, Void
NullSym == Symbol(<<"(", ")">>, 1)
FalseSym == Symbol(<<"#", "f">>, 1)
TrueSym == Symbol(<<"#", "t">>, 1)
Void == Expr("VoidExpr", 0, 1, <<>>, 0, <<>>, <<>>)

\* a nil Expression
NilExpr == Expr("nil", 0, 1, <<>>, 0, <<>>, <<>>)

\* a nil *Error, and an *Error with its message
NilErr == [isnil |-> TRUE, Val |-> <<>>]
Error(val) == [isnil |-> FALSE, Val |-> val]

IsNullSym(expr) == expr.t = "Symbol" /\ expr = NullSym

IsFalseSym(expr) == expr.t = "Symbol" /\ expr = FalseSym

IsSpecialExit(expr) == expr.t = "SpecialExpr" /\ expr.s = <<"SpecialExit">>

\* The texts of the parser's errors and of the printer

\* The texts of the parser's errors; ParseFloatPre and ParseFloatPost are the
\* two ends of strconv.ParseFloat's error text
ParserMsg ==
    [ ExpectedCloseRead |->
        <<"r","e","a","d","-","s","y","n","t","a","x",":"," ","e","x",
          "p","e","c","t","e","d"," ","a"," ",bq,")",bq," ","t","o"," ",
          "c","l","o","s","e"," ",bq,"(",bq>>
    , UnknownLexType |->
        <<"r","e","a","d","-","s","y","n","t","a","x",":"," ","u","n",
          "k","n","o","w","n"," ","l","e","x"," ","t","y","p","e">>
    , ParseFloatPre |->
        <<"s","t","r","c","o","n","v",".","P","a","r","s","e","F","l",
          "o","a","t",":"," ","p","a","r","s","i","n","g"," ">>
    , ParseFloatPost |->
        <<":"," ","i","n","v","a","l","i","d"," ","s","y","n","t","a",
          "x">>
    ]

\* The texts the String methods print
Str ==
    [ Procedure |->
        <<"#","<","p","r","o","c","e","d","u","r","e",">">>
    , LambdaPre |->
        <<"#","<","l","a","m","b","d","a"," ">>
    , Lambda |->
        <<"#","<","l","a","m","b","d","a",">">>
    , Exit |->
        <<"#","<","e","x","i","t",">">>
    , UnexpectedClose |->
        <<"U","n","e","x","p","e","c","t","e","d"," ",bq,")",bq>>
    , UnknownSpecial |->
        <<"U","n","k","n","o","w","n"," ","s","p","e","c","i","a","l",
          " ","e","x","p","r","e","s","s","i","o","n">>
    , Void |->
        <<"#","<","v","o","i","d",">">>
    , PosInf |->
        <<"+","I","n","f">>
    , NegInf |->
        <<"-","I","n","f">>
    , NaN |->
        <<"N","a","N">>
    ]

(***************************************************************************)
(* strconv.ParseFloat and strconv.FormatFloat on the lexemes and values    *)
(* of the model: decimal fractions, exactly.                               *)
(***************************************************************************)

RECURSIVE GCD(_, _)
GCD(a, b) == IF b = 0 THEN a ELSE GCD(b, a % b)

Abs(x) == IF x < 0 THEN -x ELSE x

RECURSIVE Pow10(_)
Pow10(k) == IF k = 0 THEN 1 ELSE 10 * Pow10(k - 1)

\* the fraction n/d (d > 0) in lowest terms
Frac(n, d) == LET g == GCD(Abs(n), d) IN [n |-> n \div g, d |-> d \div g]

DigitVal(c) == CHOOSE i \in 0..9 : Digits[i + 1] = c

RECURSIVE DigitsVal(_, _)
DigitsVal(cs, acc) ==
    IF cs = <<>> THEN acc ELSE DigitsVal(Tail(cs), 10 * acc + DigitVal(Head(cs)))

IsDigit(c) == ContainsRune(Digits, c)

\* ParseFloat(val, 64) for a lexeme of the shape lexNumber emits: an
\* optional sign, digits, an optional "." and digits.  It fails (invalid
\* syntax) when the lexeme holds no digit.
ParseFloat(val) ==
    LET signed == val # <<>> /\ val[1] \in {"+", "-"}
        neg == val # <<>> /\ val[1] = "-"
        body == IF signed THEN Tail(val) ELSE val
        dots == {i \in 1..Len(body) : body[i] = "."}
        dot == IF dots = {} THEN Len(body) + 1 ELSE CHOOSE i \in dots : \A j \in dots : i <= j
        ip == SubSeq(body, 1, dot - 1)
        fp == SubSeq(body, dot + 1, Len(body))
        shape == /\ Cardinality(dots) <= 1
                 /\ \A i \in 1..Len(body) : i # dot => IsDigit(body[i])
                 /\ Len(ip) + Len(fp) > 0
        mag == DigitsVal(ip \o fp, 0)
        f == Frac(IF neg THEN -mag ELSE mag, Pow10(Len(fp)))
    IN  IF shape THEN [ok |-> TRUE, n |-> f.n, d |-> f.d]
        ELSE [ok |-> FALSE, n |-> 0, d |-> 1]

\* err.Error() of a failed ParseFloat
ParseFloatError(val) == ParserMsg.ParseFloatPre \o <<"\"">> \o val \o <<"\"">> \o ParserMsg.ParseFloatPost

RECURSIVE NatDigits(_)
NatDigits(k) ==
    IF k < 10 THEN <<Digits[k + 1]>> ELSE NatDigits(k \div 10) \o <<Digits[(k % 10) + 1]>>

\* the digits of k, padded with zeros on the left to w digits
RECURSIVE PadDigits(_, _)
PadDigits(k, w) ==
    IF w = 0 THEN <<>> ELSE PadDigits(k \div 10, w - 1) \o <<Digits[(k % 10) + 1]>>

\* the least k with d | 10^k, for a d whose primes are 2 and 5; MaxFrac
\* bounds the search
MaxFrac == 6

FracLen(d) == CHOOSE k \in 0..MaxFrac : Pow10(k) % d = 0 /\ \A j \in 0..(k - 1) : Pow10(j) % d # 0

\* FormatFloat(v, 'f', -1, 64): the shortest decimal text of n/d
FormatFloat(n, d) ==
    IF d = 0 THEN (IF n > 0 THEN Str.PosInf ELSE IF n < 0 THEN Str.NegInf ELSE Str.NaN)
    ELSE
    LET k == FracLen(d)
        m == (Abs(n) * Pow10(k)) \div d
        sign == IF n < 0 THEN <<"-">> ELSE <<>>
    IN  IF k = 0 THEN sign \o NatDigits(Abs(n))
        ELSE sign \o NatDigits(m \div Pow10(k)) \o <<".">> \o PadDigits(m % Pow10(k), k)

strconv_Itoa(i) == IF i < 0 THEN <<"-">> \o NatDigits(-i) ELSE NatDigits(i)


(***************************************************************************)
(* Parser (src/unnamed/part_005): the parser's state is its lexer.  A      *)
(* result is the lexer after the read, the expression and the error.       *)
(***************************************************************************)

ParseResult(p, ex, err) == [p |-> p, ex |-> ex, err |-> err]

\* CloseList as it would be if the exit form were recognised at every quote
\* level; C6 tells the two apart
CloseListAnyLevel(lst, qlevel) ==
    IF Len(lst) = 0 /\ qlevel = 1 THEN NullSym
    ELSE IF Len(lst) = 1 /\ lst[1].t \in {"Variable", "Symbol"} /\ lst[1].s = <<"e", "x", "i", "t">>
    THEN SpecialExpr("SpecialExit")
    ELSE IF qlevel > 0 THEN ExprList(Append(lst, NullSym), qlevel)
    ELSE ExprList(lst, qlevel)

\* The end of the OpenBracket case, after the loop has met the `)`
CloseList(lst, qlevel) ==
    IF Len(lst) = 0 /\ qlevel = 1 THEN NullSym
    ELSE IF /\ Len(lst) = 1 /\ qlevel = 0
            /\ lst[1].t = "Variable" /\ lst[1].s = <<"e", "x", "i", "t">>
    THEN SpecialExpr("SpecialExit")
    ELSE IF qlevel > 0 THEN ExprList(Append(lst, NullSym), qlevel)
    ELSE ExprList(lst, qlevel)

RECURSIVE ParserNext(_, _)
RECURSIVE ParseList(_, _, _)

\* The for loop of the OpenBracket case; lst is res.Lst so far
ParseList(p, qlevel, lst) ==
    LET Item(r) ==
            IF ~r.err.isnil THEN ParseResult(r.p, Void, r.err)
            ELSE IF r.ex.t = "SpecialExpr" /\ r.ex.s = <<"SpecialCloseBracket">>
            THEN ParseResult(r.p, CloseList(lst, qlevel), NilErr)
            ELSE IF r.ex = NilExpr
            THEN ParseResult(r.p, Void, Error(ParserMsg.ExpectedCloseRead))
            ELSE ParseList(r.p, qlevel, Append(lst, r.ex))
    IN  Item(ParserNext(p, qlevel))

\* Parser.next as it would be if every identifier were read as a Variable;
\* C25 tells the two apart
ParserNextAllVariables(p, qlevel) ==
    LET OfToken(nt, token) ==
            CASE token.Typ \in {"nil", "blocked"} -> ParseResult(nt.l, NilExpr, NilErr)
              [] token.Typ = "TokenError" -> ParseResult(nt.l, Void, Error(token.Val))
              [] token.Typ = "TokenEOF" -> ParseResult(nt.l, NilExpr, NilErr)
              [] token.Typ = "TokenNumber" ->
                    LET OfFloat(num) ==
                            IF ~num.ok
                            THEN ParseResult(nt.l, Void, Error(ParseFloatError(token.Val)))
                            ELSE ParseResult(nt.l, Number(num.n, num.d, qlevel), NilErr)
                    IN  OfFloat(ParseFloat(token.Val))
              [] token.Typ = "TokenIdentifier" ->
                    ParseResult(nt.l, Variable(token.Val), NilErr)
              [] token.Typ = "TokenString" ->
                    ParseResult(nt.l, Symbol(token.Val, qlevel), NilErr)
              [] token.Typ = "TokenOpenBracket" -> ParseList(nt.l, qlevel, <<>>)
              [] token.Typ = "TokenCloseBracket" ->
                    ParseResult(nt.l, SpecialExpr("SpecialCloseBracket"), NilErr)
              [] token.Typ = "TokenQuote" -> ParserNext(nt.l, qlevel + 1)
              [] token.Typ = "TokenSkip" -> ParserNext(nt.l, qlevel)
              [] OTHER -> ParseResult(nt.l, Void, Error(ParserMsg.UnknownLexType))
        Of(nt) == OfToken(nt, nt.tok)
    IN  Of(NextToken(p))

\* Parser.next(qlevel)
ParserNext(p, qlevel) ==
    LET OfToken(nt, token) ==
            CASE token.Typ \in {"nil", "blocked"} -> ParseResult(nt.l, NilExpr, NilErr)
              [] token.Typ = "TokenError" -> ParseResult(nt.l, Void, Error(token.Val))
              [] token.Typ = "TokenEOF" -> ParseResult(nt.l, NilExpr, NilErr)
              [] token.Typ = "TokenNumber" ->
                    LET OfFloat(num) ==
                            IF ~num.ok
                            THEN ParseResult(nt.l, Void, Error(ParseFloatError(token.Val)))
                            ELSE ParseResult(nt.l, Number(num.n, num.d, qlevel), NilErr)
                    IN  OfFloat(ParseFloat(token.Val))
              [] token.Typ = "TokenIdentifier" ->
                    IF qlevel = 0 THEN ParseResult(nt.l, Variable(token.Val), NilErr)
                    ELSE ParseResult(nt.l, Symbol(token.Val, qlevel), NilErr)
              [] token.Typ = "TokenString" ->
                    ParseResult(nt.l, Symbol(token.Val, qlevel), NilErr)
              [] token.Typ = "TokenOpenBracket" -> ParseList(nt.l, qlevel, <<>>)
              [] token.Typ = "TokenCloseBracket" ->
                    ParseResult(nt.l, SpecialExpr("SpecialCloseBracket"), NilErr)
              [] token.Typ = "TokenQuote" -> ParserNext(nt.l, qlevel + 1)
              [] token.Typ = "TokenSkip" -> ParserNext(nt.l, qlevel)
              [] OTHER -> ParseResult(nt.l, Void, Error(ParserMsg.UnknownLexType))
        Of(nt) == OfToken(nt, nt.tok)
    IN  Of(NextToken(p))

\* Parse / NewParser: a parser on a new lexer
Parse(input) == NewLexer(input)

\* Parser.Next
Parser_Next(p) == ParserNext(p, 0)

(***************************************************************************)
(* String methods                                                          *)
(***************************************************************************)

RECURSIVE Repeat(_, _)
Repeat(c, k) == IF k <= 0 THEN <<>> ELSE <<c>> \o Repeat(c, k - 1)

getQs(exQLevel, currQLevel) ==
    IF exQLevel > currQLevel THEN Repeat("'", exQLevel - currQLevel) ELSE <<>>

RECURSIVE String(_, _)
RECURSIVE ListItems(_, _, _)

\* the loop of ExprList.String over l.Lst[0 : len-1], from element i
ListItems(lst, q, i) ==
    IF i > Len(lst) - 1 THEN <<>>
    ELSE (IF i # 1 THEN <<" ">> ELSE <<>>) \o String(lst[i], q + 1)
         \o ListItems(lst, q, i + 1)

\* expr.String(qlevel)
String(e, qlevel) ==
    CASE e.t = "Number" -> getQs(e.q, qlevel + 1) \o FormatFloat(e.n, e.d)
      [] e.t = "Variable" -> e.s
      [] e.t = "ExprList" ->
            IF Len(e.l) = 0 THEN getQs(e.q, qlevel) \o <<"(", ")">>
            ELSE getQs(e.q, qlevel) \o <<"(">> \o ListItems(e.l, e.q, 1)
                 \o (IF ~IsNullSym(e.l[Len(e.l)])
                     THEN <<" ", ".", " ">> \o String(e.l[Len(e.l)], e.q + 1)
                     ELSE <<>>)
                 \o <<")">>
      [] e.t = "Procedure" -> Str.Procedure
      [] e.t = "Lambda" ->
            IF Len(e.s) # 0 THEN Str.LambdaPre \o e.s \o <<">">> ELSE Str.Lambda
      [] e.t = "Symbol" ->
            getQs(IF Len(e.s) > 0 /\ e.s[1] = "#" THEN e.q - 1 ELSE e.q, qlevel) \o e.s
      [] e.t = "SpecialExpr" ->
            IF e.s = <<"SpecialExit">> THEN Str.Exit
            ELSE IF e.s = <<"SpecialCloseBracket">> THEN Str.UnexpectedClose
            ELSE Str.UnknownSpecial
      [] e.t = "VoidExpr" -> Str.Void


(***************************************************************************)
(* Errors (src/pkg/interpreter/interpreter.go, the package that returns    *)
(* errors: lines 1185-2035)                                                *)
(***************************************************************************)

\* The texts of the interpreter's errors and prints

\* The texts and the formats of newError; Missing is what Sprintf prints for
\* a verb with no operand
ErrMsg ==
    [ Unknown |->
        <<"a","n"," ","u","n","k","n","o","w","n"," ","e","r","r","o",
          "r"," ","o","c","c","u","r","e","d">>
    , UnboundIdentifier |->
        <<"u","n","b","o","u","n","d"," ","i","d","e","n","t","i","f",
          "i","e","r">>
    , MissingProc |->
        <<"#","%","a","p","p",":"," ","m","i","s","s","i","n","g"," ",
          "p","r","o","c","e","d","u","r","e"," ","e","x","p","r","e",
          "s","s","i","o","n",";","\n"," ","p","r","o","b","a","b","l",
          "y"," ","o","r","i","g","i","n","a","l","l","y"," ","(",")",
          ","," ","w","h","i","c","h"," ","i","s"," ","a","n"," ","i",
          "l","l","e","g","a","l"," ","e","m","p","t","y"," ","a","p",
          "p","l","i","c","a","t","i","o","n">>
    , BadSyntax |->
        <<"b","a","d"," ","s","y","n","t","a","x">>
    , CouldntEval |->
        <<"c","o","u","l","d","n","'","t"," ","e","v","a","l","u","a",
          "t","e">>
    , CouldntLoadFile |->
        <<"l","o","a","d",":"," ","c","o","u","l","d","n","'","t"," ",
          "l","o","a","d"," ","f","i","l","e">>
    , NotAProc |->
        <<"a","p","p","l","i","c","a","t","i","o","n",":"," ","n","o",
          "t"," ","a"," ","p","r","o","c","e","d","u","r","e",";","\n",
          " ","e","x","p","e","c","t","e","d"," ","a"," ","p","r","o",
          "c","e","d","u","r","e"," ","t","h","a","t"," ","c","a","n",
          " ","b","e"," ","a","p","p","l","i","e","d"," ","t","o"," ",
          "a","r","g","u","m","e","n","t","s">>
    , ArityMismatch |->
        <<"a","r","i","t","y"," ","m","i","s","m","a","t","c","h",";",
          "\n"," ","t","h","e"," ","e","x","p","e","c","t","e","d"," ",
          "n","u","m","b","e","r"," ","o","f"," ","a","r","g","u","m",
          "e","n","t","s"," ","d","o","e","s"," ","n","o","t"," ","m",
          "a","t","c","h"," ","t","h","e"," ","g","i","v","e","n"," ",
          "n","u","m","b","e","r">>
    , ContractViolation |->
        <<"c","o","n","t","r","a","c","t"," ","v","i","o","l","a","t",
          "i","o","n">>
    , WrongErrorType |->
        <<"w","r","o","n","g"," ","e","r","r","o","r"," ","t","y","p",
          "e">>
    , Missing |->
        <<"%","!","s","(","M","I","S","S","I","N","G",")">>
    , Given |->
        <<"\n"," "," ","g","i","v","e","n",":"," ">>
    , Expected |->
        <<"\n"," "," ","e","x","p","e","c","t","e","d",":"," ">>
    , Nl |->
        <<"\n"," ">>
    , Nl2 |->
        <<"\n"," "," ">>
    , Colon |->
        <<":"," ">>
    ]

MsgDebugParam ==
    <<"D","E","B","U","G",":"," ","n","o","n","-","v","a","r","i","a","b",
      "l","e"," ","p","a","r","a","m"," ","g","i","v","e","n"," ">>

MsgBye ==
    <<"G","o","t"," ","(","e","x","i","t",")",","," ","b","y","e","!">>

\* The two ends of the error text of ioutil.ReadFile for a missing file
OsMsg ==
    [ NoSuchFile |->
        <<":"," ","n","o"," ","s","u","c","h"," ","f","i","l","e"," ",
          "o","r"," ","d","i","r","e","c","t","o","r","y">>
    , Open |->
        <<"o","p","e","n"," ">>
    ]

\* newError(typ, args...): err.Val as fmt.Sprintf builds it
newError(typ, args) ==
    LET Text(T) ==
            (CASE typ = "ErrUnknown" -> T.Unknown
               [] typ = "ErrUnboundIdentifier" ->
                     (IF Len(args) > 0 THEN args[1] \o T.Colon ELSE <<>>)
                         \o T.UnboundIdentifier
               [] typ = "ErrMissingProc" -> T.MissingProc
               [] typ = "ErrBadSyntax" ->
                     (IF Len(args) >= 1 THEN args[1] \o T.Colon ELSE <<>>)
                         \o T.BadSyntax
               [] typ = "ErrCouldntEval" ->
                     (IF Len(args) >= 1 THEN args[1] \o T.Colon ELSE <<>>)
                         \o T.CouldntEval
               [] typ = "ErrCouldntLoadFile" ->
                     T.CouldntLoadFile
                         \o (IF Len(args) >= 1 THEN T.Nl \o args[1] ELSE <<>>)
                         \o (IF Len(args) >= 2 THEN T.Nl2 \o args[2] ELSE <<>>)
               [] typ = "ErrNotAProc" ->
                     \* Sprintf("%s\n  given: %s", args[0]): one operand for two verbs
                     IF Len(args) >= 1 THEN args[1] \o T.Given \o T.Missing
                     ELSE T.NotAProc
               [] typ = "ErrArityMismatch" ->
                     (IF Len(args) >= 1 THEN args[1] \o T.Colon ELSE <<>>)
                         \o T.ArityMismatch
               [] typ = "ErrContractViolation" ->
                     (IF Len(args) >= 1 THEN args[1] \o T.Colon ELSE <<>>)
                         \o T.ContractViolation
               [] OTHER -> T.WrongErrorType)
                \o (IF Len(args) >= 2 THEN T.Expected \o args[2] ELSE <<>>)
                \o (IF Len(args) >= 3 THEN T.Given \o args[3] ELSE <<>>)
    IN  Error(Text(ErrMsg))


(***************************************************************************)
(* float64 arithmetic on fractions.  A Number is n/d in lowest terms with  *)
(* d > 0; d = 0 stands for +Inf (n = 1), -Inf (n = -1) and NaN (n = 0).    *)
(***************************************************************************)

Num(n, d) == [n |-> n, d |-> d]
NaN == Num(0, 0)
Inf(sign) == Num(sign, 0)
IsNaN(a) == a.d = 0 /\ a.n = 0
IsInf(a) == a.d = 0 /\ a.n # 0
Sign(x) == IF x > 0 THEN 1 ELSE IF x < 0 THEN -1 ELSE 0

FAdd(a, b) ==
    IF IsNaN(a) \/ IsNaN(b) THEN NaN
    ELSE IF IsInf(a) /\ IsInf(b) THEN (IF a.n = b.n THEN a ELSE NaN)
    ELSE IF IsInf(a) THEN a
    ELSE IF IsInf(b) THEN b
    ELSE Frac(a.n * b.d + b.n * a.d, a.d * b.d)

FNeg(a) == Num(-a.n, a.d)

FSub(a, b) == FAdd(a, FNeg(b))

FMul(a, b) ==
    IF IsNaN(a) \/ IsNaN(b) THEN NaN
    ELSE IF IsInf(a) \/ IsInf(b)
    THEN (IF a.n = 0 \/ b.n = 0 THEN NaN ELSE Inf(Sign(a.n) * Sign(b.n)))
    ELSE Frac(a.n * b.n, a.d * b.d)

FDiv(a, b) ==
    IF IsNaN(a) \/ IsNaN(b) THEN NaN
    ELSE IF IsInf(a) THEN (IF IsInf(b) THEN NaN ELSE Inf(a.n * (IF b.n < 0 THEN -1 ELSE 1)))
    ELSE IF IsInf(b) THEN Num(0, 1)
    ELSE IF b.n = 0 THEN (IF a.n = 0 THEN NaN ELSE Inf(Sign(a.n)))
    ELSE Frac(a.n * b.d * Sign(b.n), a.d * Abs(b.n))

FLess(a, b) ==
    IF IsNaN(a) \/ IsNaN(b) THEN FALSE
    ELSE IF IsInf(a) \/ IsInf(b)
    THEN (IF IsInf(a) /\ IsInf(b) THEN a.n < b.n
          ELSE IF IsInf(a) THEN a.n < 0 ELSE b.n > 0)
    ELSE a.n * b.d < b.n * a.d

FEq(a, b) == ~IsNaN(a) /\ ~IsNaN(b) /\ a = b

\* int64(v) of a finite float64: truncation toward zero
Int64(a) == IF a.n >= 0 THEN a.n \div a.d ELSE -((-a.n) \div a.d)

\* Go's x / y and x % y on int64 (y # 0): the quotient truncates toward zero
GoQuo(x, y) == Sign(x) * Sign(y) * (Abs(x) \div Abs(y))
GoRem(x, y) == x - GoQuo(x, y) * y

\* math.Pow(x, y) for an integral y
RECURSIVE FPowNat(_, _)
FPowNat(a, k) == IF k = 0 THEN Num(1, 1) ELSE FMul(a, FPowNat(a, k - 1))


(***************************************************************************)
(* Built-in procedures.  A result is the expression, the error and whether *)
(* the Go runtime panicked.  Negative zero is not told from zero.          *)
(***************************************************************************)

\* The names and the contracts the procedures give to newError
ProcStr ==
    [ NumberQ |->
        <<"n","u","m","b","e","r","?">>
    , PairQ |->
        <<"p","a","i","r","?">>
    , NullQ |->
        <<"n","u","l","l","?">>
    , ListQ |->
        <<"l","i","s","t","?">>
    , Comparison |->
        <<"<","c","o","m","p","a","r","i","s","o","n",">">>
    , Remainder |->
        <<"r","e","m","a","i","n","d","e","r">>
    , Quotient |->
        <<"q","u","o","t","i","e","n","t">>
    , Expt |->
        <<"e","x","p","t">>
    , Cons |->
        <<"c","o","n","s">>
    , Car |->
        <<"c","a","r">>
    , Cdr |->
        <<"c","d","r">>
    , MinMax |->
        <<"m","i","n","/","m","a","x">>
    ]

BR(ex, err) == [ex |-> ex, err |-> err, panic |-> FALSE]
BPanic == [ex |-> NilExpr, err |-> NilErr, panic |-> TRUE]

NumOf(e) == Num(e.n, e.d)
MkNumber(f) == Number(f.n, f.d, 0)
IsNum(e) == e.t = "Number"

\* the loop of procSubDiv over args.Lst[1:], from element i
RECURSIVE SubDivLoop(_, _, _, _, _)
SubDivLoop(args, isSub, procName, i, res) ==
    IF i > Len(args) THEN BR(MkNumber(res), NilErr)
    ELSE IF ~IsNum(args[i])
    THEN BR(Void, newError("ErrContractViolation",
                           <<procName, ProcStr.NumberQ, String(args[1], 0)>>))
    ELSE SubDivLoop(args, isSub, procName, i + 1,
                    IF isSub THEN FSub(res, NumOf(args[i])) ELSE FDiv(res, NumOf(args[i])))

procSubDiv(args, isSub) ==
    LET procName == IF isSub THEN <<"-">> ELSE <<"/">>
    IN  IF Len(args) = 0 THEN BR(MkNumber(IF isSub THEN Num(0, 1) ELSE Num(1, 1)), NilErr)
        ELSE IF ~IsNum(args[1])
        THEN BR(Void, newError("ErrContractViolation",
                               <<procName, ProcStr.NumberQ, String(args[1], 0)>>))
        ELSE IF Len(args) = 1
        THEN (IF isSub THEN BR(MkNumber(FNeg(NumOf(args[1]))), NilErr)
              ELSE BR(MkNumber(FDiv(Num(1, 1), NumOf(args[1]))), NilErr))
        ELSE SubDivLoop(args, isSub, procName, 2, NumOf(args[1]))

procSubtract(args) == procSubDiv(args, TRUE)
procDivide(args) == procSubDiv(args, FALSE)

RECURSIVE AddMultLoop(_, _, _, _, _)
AddMultLoop(args, isAdd, procName, i, res) ==
    IF i > Len(args) THEN BR(MkNumber(res), NilErr)
    ELSE IF ~IsNum(args[i])
    THEN BR(Void, newError("ErrContractViolation",
                           <<procName, ProcStr.NumberQ, String(args[i], 0)>>))
    ELSE AddMultLoop(args, isAdd, procName, i + 1,
                     IF isAdd THEN FAdd(res, NumOf(args[i])) ELSE FMul(res, NumOf(args[i])))

procAddMult(args, isAdd) ==
    AddMultLoop(args, isAdd, IF isAdd THEN <<"+">> ELSE <<"*">>, 1,
                IF isAdd THEN Num(0, 1) ELSE Num(1, 1))

procAdd(args) == procAddMult(args, TRUE)
procMultiply(args) == procAddMult(args, FALSE)

\* less, lessEq, greater, greaterEq, equal
comp(op, lhs, rhs) ==
    CASE op = "less" -> FLess(lhs, rhs)
      [] op = "lessEq" -> FLess(lhs, rhs) \/ FEq(lhs, rhs)
      [] op = "greater" -> FLess(rhs, lhs)
      [] op = "greaterEq" -> FLess(rhs, lhs) \/ FEq(lhs, rhs)
      [] op = "equal" -> FEq(lhs, rhs)

RECURSIVE CompLoop(_, _, _, _)
\* CompLoop as it would be if every number were compared with the first;
\* C20 tells the two apart
CompLoopToFirst(args, op, i, lastNum) ==
    IF i > Len(args) THEN BR(TrueSym, NilErr)
    ELSE IF ~IsNum(args[i])
    THEN BR(Void, newError("ErrContractViolation",
                           <<ProcStr.Comparison, ProcStr.NumberQ, String(args[i], 0)>>))
    ELSE IF ~comp(op, lastNum, NumOf(args[i])) THEN BR(FalseSym, NilErr)
    ELSE CompLoop(args, op, i + 1, lastNum)

CompLoop(args, op, i, lastNum) ==
    IF i > Len(args) THEN BR(TrueSym, NilErr)
    ELSE IF ~IsNum(args[i])
    THEN BR(Void, newError("ErrContractViolation",
                           <<ProcStr.Comparison, ProcStr.NumberQ, String(args[i], 0)>>))
    ELSE IF ~comp(op, lastNum, NumOf(args[i])) THEN BR(FalseSym, NilErr)
    ELSE CompLoop(args, op, i + 1, NumOf(args[i]))

procComp(args, op) ==
    IF Len(args) = 0 THEN BR(TrueSym, NilErr)
    ELSE IF ~IsNum(args[1])
    THEN BR(Void, newError("ErrContractViolation",
                           <<ProcStr.Comparison, ProcStr.NumberQ, String(args[1], 0)>>))
    ELSE CompLoop(args, op, 2, NumOf(args[1]))

procIsNumber(args) ==
    IF Len(args) # 1
    THEN BR(Void, newError("ErrArityMismatch", <<ProcStr.NumberQ, <<"1">>, strconv_Itoa(Len(args))>>))
    ELSE IF IsNum(args[1]) THEN BR(TrueSym, NilErr) ELSE BR(FalseSym, NilErr)

procIsNull(args) ==
    IF Len(args) # 1
    THEN BR(Void, newError("ErrArityMismatch", <<ProcStr.NullQ, <<"1">>, strconv_Itoa(Len(args))>>))
    ELSE IF IsNullSym(args[1]) THEN BR(TrueSym, NilErr) ELSE BR(FalseSym, NilErr)

\* procAnd: the arguments arrive evaluated
RECURSIVE AndLoop(_, _, _)
AndLoop(args, i, res) ==
    IF i > Len(args) THEN BR(res, NilErr)
    ELSE IF IsFalseSym(args[i]) THEN BR(FalseSym, NilErr)
    ELSE AndLoop(args, i + 1, args[i])

procAnd(args) == AndLoop(args, 1, TrueSym)

RECURSIVE OrLoop(_, _)
OrLoop(args, i) ==
    IF i > Len(args) THEN BR(FalseSym, NilErr)
    ELSE IF ~IsFalseSym(args[i]) THEN BR(args[i], NilErr)
    ELSE OrLoop(args, i + 1)

procOr(args) == OrLoop(args, 1)

\* procRemainder and procQuotient: int64 division panics on a zero divisor
procRemQuo(args, name, isRem) ==
    IF Len(args) # 2
    THEN BR(Void, newError("ErrArityMismatch", <<name, <<"2">>, strconv_Itoa(Len(args))>>))
    ELSE IF ~IsNum(args[1])
    THEN BR(Void, newError("ErrContractViolation", <<name, ProcStr.NumberQ, String(args[1], 0)>>))
    ELSE IF ~IsNum(args[2])
    THEN BR(Void, newError("ErrContractViolation", <<name, ProcStr.NumberQ, String(args[2], 0)>>))
    ELSE LET x == Int64(NumOf(args[1]))
             y == Int64(NumOf(args[2]))
         IN  IF y = 0 THEN BPanic
             ELSE BR(MkNumber(Num(IF isRem THEN GoRem(x, y) ELSE GoQuo(x, y), 1)), NilErr)

procRemainder(args) == procRemQuo(args, ProcStr.Remainder, TRUE)
procQuotient(args) == procRemQuo(args, ProcStr.Quotient, FALSE)

procExpt(args) ==
    IF Len(args) # 2
    THEN BR(Void, newError("ErrArityMismatch", <<ProcStr.Expt, <<"2">>, strconv_Itoa(Len(args))>>))
    ELSE IF ~IsNum(args[1])
    THEN BR(Void, newError("ErrContractViolation", <<ProcStr.Expt, ProcStr.NumberQ, String(args[1], 0)>>))
    ELSE IF ~IsNum(args[2])
    THEN BR(Void, newError("ErrContractViolation", <<ProcStr.Expt, ProcStr.NumberQ, String(args[2], 0)>>))
    ELSE LET x == NumOf(args[1])
             y == NumOf(args[2])
         IN  CASE y.d = 1 /\ y.n >= 0 -> BR(MkNumber(FPowNat(x, y.n)), NilErr)
               [] y.d = 1 /\ y.n < 0 ->
                    BR(MkNumber(FDiv(Num(1, 1), FPowNat(x, -y.n))), NilErr)

\* procList returns args itself, with NullSym appended: its Qlevel is the
\* zero value of the ExprList evalProcLambda built
procList(args) ==
    IF Len(args) = 0 THEN BR(NullSym, NilErr)
    ELSE BR(ExprList(Append(args, NullSym), 0), NilErr)

procCons(args) ==
    IF Len(args) # 2
    THEN BR(Void, newError("ErrArityMismatch", <<ProcStr.Cons, <<"2">>, strconv_Itoa(Len(args))>>))
    ELSE IF args[2].t = "ExprList" /\ args[2].q <= 1
    THEN BR(ExprList(<<args[1]>> \o args[2].l, 1), NilErr)
    ELSE BR(ExprList(<<args[1], args[2]>>, 1), NilErr)

\* procCar: lstArg.Lst[0] panics on an empty list
procCar(args) ==
    IF Len(args) # 1
    THEN BR(Void, newError("ErrArityMismatch", <<ProcStr.Car, <<"1">>, strconv_Itoa(Len(args))>>))
    ELSE IF args[1].t = "ExprList"
    THEN (IF Len(args[1].l) = 0 THEN BPanic ELSE BR(args[1].l[1], NilErr))
    ELSE BR(Void, newError("ErrContractViolation", <<ProcStr.Car, ProcStr.PairQ, String(args[1], 0)>>))

isPair(arg) == arg.t = "ExprList" /\ Len(arg.l) >= 2

procCdr(args) ==
    IF Len(args) # 1
    THEN BR(Void, newError("ErrArityMismatch", <<ProcStr.Cdr, <<"1">>, strconv_Itoa(Len(args))>>))
    ELSE IF isPair(args[1])
    THEN (IF Len(args[1].l) = 2 THEN BR(args[1].l[2], NilErr)
          ELSE BR(ExprList(Tail(args[1].l), args[1].q), NilErr))
    ELSE BR(Void, newError("ErrContractViolation", <<ProcStr.Cdr, ProcStr.PairQ, String(args[1], 0)>>))

procIsList(args) ==
    IF Len(args) # 1
    THEN BR(Void, newError("ErrArityMismatch", <<ProcStr.ListQ, <<"1">>, strconv_Itoa(Len(args))>>))
    ELSE IF IsNullSym(args[1]) THEN BR(TrueSym, NilErr)
    ELSE IF /\ args[1].t = "ExprList"
            /\ (Len(args[1].l) = 0 \/ IsNullSym(args[1].l[Len(args[1].l)]))
    THEN BR(TrueSym, NilErr)
    ELSE BR(FalseSym, NilErr)

procIsPair(args) ==
    IF Len(args) # 1
    THEN BR(Void, newError("ErrArityMismatch", <<ProcStr.PairQ, <<"1">>, strconv_Itoa(Len(args))>>))
    ELSE IF isPair(args[1]) THEN BR(TrueSym, NilErr) ELSE BR(FalseSym, NilErr)

\* the loop of minMax over args.Lst[1:]; the result holds min and max
RECURSIVE MinMaxLoop(_, _, _, _)
MinMaxLoop(args, i, min, max) ==
    IF i > Len(args) THEN [min |-> min, max |-> max, err |-> NilErr]
    ELSE IF IsNum(args[i])
    THEN MinMaxLoop(args, i + 1,
                    IF FLess(NumOf(args[i]), NumOf(min)) THEN args[i] ELSE min,
                    IF FLess(NumOf(max), NumOf(args[i])) THEN args[i] ELSE max)
    ELSE [min |-> NilExpr, max |-> NilExpr,
          err |-> newError("ErrContractViolation",
                           <<ProcStr.MinMax, ProcStr.NumberQ, String(args[i], 0)>>)]

minMax(args) ==
    IF Len(args) = 0
    THEN [min |-> NilExpr, max |-> NilExpr,
          err |-> newError("ErrArityMismatch", <<ProcStr.MinMax, <<"1">>, strconv_Itoa(Len(args))>>)]
    ELSE IF ~IsNum(args[1])
    THEN [min |-> NilExpr, max |-> NilExpr,
          err |-> newError("ErrContractViolation",
                           <<ProcStr.MinMax, ProcStr.NumberQ, String(args[1], 0)>>)]
    ELSE MinMaxLoop(args, 2, args[1], args[1])

procMax(args) ==
    LET r == minMax(args) IN IF ~r.err.isnil THEN BR(Void, r.err) ELSE BR(r.max, NilErr)

procMin(args) ==
    LET r == minMax(args) IN IF ~r.err.isnil THEN BR(Void, r.err) ELSE BR(r.min, NilErr)

\* proc.Fn(&args)
ApplyFn(fn, args) ==
    CASE fn = "procAdd" -> procAdd(args)
      [] fn = "procMultiply" -> procMultiply(args)
      [] fn = "procSubtract" -> procSubtract(args)
      [] fn = "procDivide" -> procDivide(args)
      [] fn = "procEquals" -> procComp(args, "equal")
      [] fn = "procLess" -> procComp(args, "less")
      [] fn = "procLessEq" -> procComp(args, "lessEq")
      [] fn = "procGreater" -> procComp(args, "greater")
      [] fn = "procGreaterEq" -> procComp(args, "greaterEq")
      [] fn = "procIsNumber" -> procIsNumber(args)
      [] fn = "procIsNull" -> procIsNull(args)
      [] fn = "procAnd" -> procAnd(args)
      [] fn = "procOr" -> procOr(args)
      [] fn = "procRemainder" -> procRemainder(args)
      [] fn = "procQuotient" -> procQuotient(args)
      [] fn = "procExpt" -> procExpt(args)
      [] fn = "procList" -> procList(args)
      [] fn = "procCons" -> procCons(args)
      [] fn = "procCar" -> procCar(args)
      [] fn = "procCdr" -> procCdr(args)
      [] fn = "procIsPair" -> procIsPair(args)
      [] fn = "procIsList" -> procIsList(args)
      [] fn = "procMax" -> procMax(args)
      [] fn = "procMin" -> procMin(args)


(***************************************************************************)
(* Environments and the evaluator                                          *)
(*                                                                         *)
(* The heap is the sequence of all environment structs made so far; an     *)
(* *environment is an index into it, 0 is nil and 1 is the interpreter's   *)
(* genv.  A memory m holds the heap, the lines printed on stdout (out), the*)
(* number of calls of evalProcLambda so far (calls) and the history of     *)
(* what the evaluator did (log), which the code does not read.             *)
(***************************************************************************)

\* The names of the special forms and the texts they give to newError
FormStr ==
    [ Define |->
        <<"d","e","f","i","n","e">>
    , If |->
        <<"i","f">>
    , Load |->
        <<"l","o","a","d">>
    , Cond |->
        <<"c","o","n","d">>
    , Else |->
        <<"e","l","s","e">>
    , AtLeast2 |->
        <<"a","t"," ","l","e","a","s","t"," ","2"," ","a","r","g","u",
          "m","e","n","t","s">>
    , ExactlyOne |->
        <<"e","x","a","c","t","l","y"," ","o","n","e"," ","e","x","p",
          "r","e","s","s","i","o","n"," ","a","f","t","e","r"," ","i",
          "d","e","n","t","i","f","i","e","r">>
    , Identifier |->
        <<"i","d","e","n","t","i","f","i","e","r">>
    , IdentifierOrList |->
        <<"i","d","e","n","t","i","f","i","e","r"," ","o","r"," ","l",
          "i","s","t">>
    , N2or3 |->
        <<"2"," ","o","r"," ","3"," ","a","r","g","u","m","e","n","t",
          "s">>
    , N1Argument |->
        <<"1"," ","a","r","g","u","m","e","n","t">>
    , PairClause |->
        <<"p","a","i","r","?"," ","a","s"," ","a"," ","t","e","s","t",
          " ","c","l","a","u","s","e">>
    ]

\* An entry of the history: what happened (e), in which call of
\* evalProcLambda (cid), in which environment (env), at which index (i),
\* to which identifier (name), with which expression (x), whether with an
\* error (err), and a set of environments (set).
Ev(e, cid, env, i, name, x, err, set) ==
    [e |-> e, cid |-> cid, env |-> env, i |-> i, name |-> name, x |-> x,
     err |-> err, set |-> set]

Log(m, ev) == [m EXCEPT !.log = Append(@, ev)]

Println(m, line) == [m EXCEPT !.out = Append(@, line)]

\* the results of the evaluator's methods: (ex, err), the memory after the
\* call, and whether the call panicked
ER(ex, err, m) == [ex |-> ex, err |-> err, m |-> m, panic |-> FALSE]
EPanic(m) == [ex |-> NilExpr, err |-> NilErr, m |-> m, panic |-> TRUE]

\* type environment struct { vars; parent }
Environment(vars, parent) == [vars |-> vars, parent |-> parent]

\* m[k] = v on a Go map
MapSet(vars, k, v) == [x \in (DOMAIN vars) \cup {k} |-> IF x = k THEN v ELSE vars[x]]

EmptyMap == [x \in {} |-> NilExpr]

\* environment.find: the local map, then the parents; frame is the
\* environment that holds the binding (0 when none does)
RECURSIVE find(_, _, _)
find(heap, env, val) ==
    IF val \in DOMAIN heap[env].vars
    THEN [ex |-> heap[env].vars[val], err |-> NilErr, frame |-> env]
    ELSE IF heap[env].parent # 0 THEN find(heap, heap[env].parent, val)
    ELSE [ex |-> Void, err |-> newError("ErrUnboundIdentifier", <<val>>), frame |-> 0]

\* fmt.Sprintf("%q", s) on the texts of the model
Quoted(s) == <<"\"">> \o s \o <<"\"">>

\* makeEnvironment: the new environment and the DEBUG lines it prints for
\* the params that are no Variable; from param i
RECURSIVE makeEnvironmentFrom(_, _, _, _)
makeEnvironmentFrom(resEnv, params, args, i) ==
    IF i > Len(params) THEN [env |-> resEnv, out |-> <<>>]
    ELSE IF params[i].t = "Variable"
    THEN makeEnvironmentFrom([resEnv EXCEPT !.vars = MapSet(@, params[i].s, args[i])],
                             params, args, i + 1)
    ELSE LET r == makeEnvironmentFrom(resEnv, params, args, i + 1)
         IN  [env |-> r.env,
              out |-> <<MsgDebugParam \o Quoted(String(params[i], 0))>> \o r.out]

makeEnvironment(parent, params, args) ==
    makeEnvironmentFrom(Environment(EmptyMap, parent), params, args, 1)

\* The parent evalProcLambda gives the call frame of a Lambda: the
\* environment the call is evaluated in
CallFrameParent(env, lambda) == env

\* SpecialForm as it would be without the case "if"; C10 tells the two apart
SpecialFormNoIf(head) ==
    IF head.t # "Variable" THEN ""
    ELSE CASE head.s = FormStr.Define -> "define"
           [] head.s = FormStr.Load -> "load"
           [] head.s = FormStr.Cond -> "cond"
           [] OTHER -> ""

\* The switch of eval on the head Variable of a call list: the special
\* form it names, or "" for none
SpecialForm(head) ==
    IF head.t # "Variable" THEN ""
    ELSE CASE head.s = FormStr.Define -> "define"
           [] head.s = FormStr.If -> "if"
           [] head.s = FormStr.Load -> "load"
           [] head.s = FormStr.Cond -> "cond"
           [] OTHER -> ""

\* Bind as it would be if define wrote to the global environment; C9 tells
\* the two apart
BindGlobal(heap, env, ident, ex) == [heap EXCEPT ![1].vars = MapSet(@, ident, ex)]

\* env.vars[ident] = ex
Bind(heap, env, ident, ex) == [heap EXCEPT ![env].vars = MapSet(@, ident, ex)]

\* ioutil.ReadFile: the files of the working directory
Files == [name \in {<<"l", "i", "b">>} |->
            <<"(","d","e","f","i","n","e"," ","z"," ","7",")","\n","q","\n">>]

ReadFile(name) ==
    IF name \in DOMAIN Files THEN [data |-> Files[name], err |-> <<>>]
    ELSE [data |-> <<>>, err |-> OsMsg.Open \o name \o OsMsg.NoSuchFile]


RECURSIVE eval(_, _, _)
RECURSIVE evalIf(_, _, _)
RECURSIVE evalLoad(_, _, _)
RECURSIVE evalLoadLoop(_, _, _)
RECURSIVE evalProcLambda(_, _, _)
RECURSIVE evalArgs(_, _, _, _, _, _)
RECURSIVE evalBody(_, _, _, _, _)
RECURSIVE evalDefine(_, _, _)
RECURSIVE evalCond(_, _, _)
RECURSIVE evalCondFrom(_, _, _, _)
RECURSIVE evalClauseBody(_, _, _, _, _)

\* environment.eval
eval(env, expr, m) ==
    CASE expr.t = "Variable" ->
            LET Found(f) ==
                    ER(f.ex, f.err,
                       Log(m, Ev("find", m.calls, env, f.frame, expr.s, f.ex, ~f.err.isnil, {})))
            IN  Found(find(m.heap, env, expr.s))
      [] expr.t = "Symbol" -> ER(expr, NilErr, m)
      [] expr.t = "Number" -> ER(expr, NilErr, m)
      [] expr.t = "Procedure" -> EPanic(m)
      [] expr.t = "ExprList" ->
            IF expr.q > 0 THEN ER(expr, NilErr, m)
            ELSE IF Len(expr.l) = 0 THEN ER(Void, newError("ErrMissingProc", <<>>), m)
            ELSE IF Len(expr.l) = 1 /\ IsNullSym(expr.l[1]) THEN EPanic(m)
            ELSE LET Dispatch(form, ms) ==
                         CASE form = "define" -> evalDefine(env, expr.l, ms)
                           [] form = "if" -> evalIf(env, expr.l, ms)
                           [] form = "load" -> evalLoad(env, expr.l, ms)
                           [] form = "cond" -> evalCond(env, expr.l, ms)
                           [] OTHER -> evalProcLambda(env, expr.l, m)
                 IN  Dispatch(SpecialForm(expr.l[1]),
                              Log(m, Ev("special", m.calls, env, 0, expr.l[1].s, expr.l[1], FALSE, {})))
      [] OTHER -> ER(Void, newError("ErrUnknown", <<>>), m)

\* evalIf as it would be if every symbol #f, at any quote level, were false;
\* C11 tells the two apart
evalIfAnyQuote(env, lst, m) ==
    LET len == Len(lst)
        Branch(c) ==
            IF c.panic THEN c
            ELSE IF ~c.err.isnil THEN ER(Void, c.err, c.m)
            ELSE IF c.ex.t = "Symbol" /\ c.ex.s = FalseSym.s
            THEN (IF len = 4 THEN eval(env, lst[4], c.m) ELSE ER(Void, NilErr, c.m))
            ELSE eval(env, lst[3], c.m)
    IN  IF len < 3 \/ len > 4
        THEN ER(Void, newError("ErrBadSyntax", <<FormStr.If, FormStr.N2or3, strconv_Itoa(len - 1)>>), m)
        ELSE Branch(eval(env, lst[2], m))

\* environment.evalIf; lst is lst.Lst
evalIf(env, lst, m) ==
    LET len == Len(lst)
        Branch(c) ==
            IF c.panic THEN c
            ELSE IF ~c.err.isnil THEN ER(Void, c.err, c.m)
            ELSE IF IsFalseSym(c.ex)
            THEN (IF len = 4 THEN eval(env, lst[4], c.m) ELSE ER(Void, NilErr, c.m))
            ELSE eval(env, lst[3], c.m)
    IN  IF len < 3 \/ len > 4
        THEN ER(Void, newError("ErrBadSyntax", <<FormStr.If, FormStr.N2or3, strconv_Itoa(len - 1)>>), m)
        ELSE Branch(eval(env, lst[2], m))

\* the for loop of evalLoad over the expressions of the file
evalLoadLoop(env, par, m) ==
    LET Printed(r, v) ==
            IF v.panic THEN v
            ELSE IF ~v.err.isnil THEN evalLoadLoop(env, r.p, Println(v.m, v.err.Val))
            ELSE IF v.ex = NilExpr THEN EPanic(v.m)
            ELSE evalLoadLoop(env, r.p, Println(v.m, String(v.ex, 0)))
        Iter(r) ==
            IF r.ex = NilExpr THEN ER(Void, NilErr, m)
            ELSE Printed(r, IF r.err.isnil THEN eval(env, r.ex, m) ELSE ER(r.ex, r.err, m))
    IN  Iter(Parser_Next(par))

\* environment.evalLoad
evalLoad(env, lst, m) ==
    LET len == Len(lst)
        Loaded(f) ==
            IF f.err # <<>>
            THEN ER(Void, newError("ErrCouldntLoadFile", <<lst[2].s, f.err>>), m)
            ELSE evalLoadLoop(env, Parse(f.data), m)
    IN  IF len # 2
        THEN ER(Void, newError("ErrBadSyntax", <<FormStr.Load, FormStr.N1Argument, strconv_Itoa(len - 1)>>), m)
        ELSE IF lst[2].t = "Variable" THEN Loaded(ReadFile(lst[2].s))
        ELSE ER(Void, NilErr, m)

\* evalArgs as it would be if the loop went on after an argument's error and
\* kept the error for the end; C8 tells the two apart
evalArgsAll(env, lst, i, args, m, cid) ==
    LET Rest(r, x) == IF x.panic \/ ~x.err.isnil THEN x ELSE [x EXCEPT !.err = r.err]
        Arg(r) ==
            IF r.panic THEN [args |-> args, err |-> NilErr, m |-> r.m, panic |-> TRUE]
            ELSE Rest(r, evalArgs(env, lst, i + 1, Append(args, r.ex),
                                  Log(r.m, Ev("argend", cid, env, i - 1, <<>>, r.ex,
                                              ~r.err.isnil, {})), cid))
    IN  IF i > Len(lst) THEN [args |-> args, err |-> NilErr, m |-> m, panic |-> FALSE]
        ELSE Arg(eval(env, lst[i],
                      Log(m, Ev("argbegin", cid, env, i - 1, <<>>, lst[i], FALSE, {}))))

\* the loop of evalProcLambda over lst.Lst[1:]: lst[i] is argument i - 1;
\* args holds the values so far
evalArgs(env, lst, i, args, m, cid) ==
    LET Arg(r) ==
            IF r.panic THEN [args |-> args, err |-> NilErr, m |-> r.m, panic |-> TRUE]
            ELSE IF ~r.err.isnil
            THEN [args |-> args, err |-> r.err, panic |-> FALSE,
                  m |-> Log(r.m, Ev("argend", cid, env, i - 1, <<>>, r.ex, TRUE, {}))]
            ELSE evalArgs(env, lst, i + 1, Append(args, r.ex),
                          Log(r.m, Ev("argend", cid, env, i - 1, <<>>, r.ex, FALSE, {})), cid)
    IN  IF i > Len(lst) THEN [args |-> args, err |-> NilErr, m |-> m, panic |-> FALSE]
        ELSE Arg(eval(env, lst[i],
                      Log(m, Ev("argbegin", cid, env, i - 1, <<>>, lst[i], FALSE, {}))))

\* the loop of evalProcLambda over lambda.Body.Lst, from expression i;
\* ex is the value of the expression before it
evalBody(lambdaEnv, body, i, ex, m) ==
    LET Expr1(r) ==
            IF r.panic \/ ~r.err.isnil THEN r
            ELSE evalBody(lambdaEnv, body, i + 1, r.ex, r.m)
    IN  IF i > Len(body) THEN ER(ex, NilErr, m)
        ELSE Expr1(eval(lambdaEnv, body[i], m))

\* evalProcLambda as it would be if a Lambda took its first arguments and
\* let the others go; C13 tells the two apart
evalProcLambdaAtLeast(env, lst, m) ==
    LET cid == m.calls + 1
        Returned(lambda, lambdaEnv, m1, r) ==
            IF r.panic THEN r
            ELSE ER(r.ex, r.err,
                    Log(r.m, Ev("return", cid, lambdaEnv, m1.heap[lambdaEnv].parent, lambda.s,
                                r.ex, ~r.err.isnil,
                                {f \in 1..Len(m1.heap) :
                                    f # lambdaEnv /\ r.m.heap[f] # m1.heap[f]})))
        InFrame(lambda, args, lambdaEnv, m1) ==
            Returned(lambda, lambdaEnv, m1,
                     evalBody(lambdaEnv, lambda.b, 1, NilExpr,
                              Log(m1, Ev("frame", cid, lambdaEnv, m1.heap[lambdaEnv].parent,
                                         lambda.s, ExprList(args, 0), FALSE, {}))))
        Framed(lambda, as, mk) ==
            InFrame(lambda, as.args, Len(as.m.heap) + 1,
                    [as.m EXCEPT !.heap = Append(@, mk.env), !.out = @ \o mk.out])
        CallLambda(lambda, as) ==
            IF Len(lambda.l) > Len(as.args)
            THEN ER(Void, newError("ErrArityMismatch",
                                   <<lambda.s, strconv_Itoa(Len(lambda.l)),
                                     strconv_Itoa(Len(as.args))>>), as.m)
            ELSE Framed(lambda, as,
                        makeEnvironment(CallFrameParent(env, lambda), lambda.l, as.args))
        Applied(proc, as, b) ==
            IF b.panic
            THEN EPanic(Log(as.m, Ev("apply", cid, env, Len(as.args), proc.s,
                                     ExprList(as.args, 0), FALSE, {})))
            ELSE ER(b.ex, b.err,
                    Log(as.m, Ev("apply", cid, env, Len(as.args), proc.s,
                                 ExprList(as.args, 0), ~b.err.isnil, {})))
        Call(pr, as) ==
            IF as.panic THEN EPanic(as.m)
            ELSE IF ~as.err.isnil THEN ER(Void, as.err, as.m)
            ELSE IF pr.ex.t = "Procedure"
            THEN Applied(pr.ex, as, ApplyFn(pr.ex.s[1], as.args))
            ELSE CallLambda(pr.ex, as)
        Head1(pr) ==
            IF pr.panic THEN pr
            ELSE IF ~pr.err.isnil THEN ER(Void, pr.err, pr.m)
            ELSE IF pr.ex.t \notin {"Procedure", "Lambda"}
            THEN ER(Void, newError("ErrNotAProc", <<String(pr.ex, 0)>>), pr.m)
            ELSE Call(pr, evalArgs(env, lst, 2, <<>>,
                                   Log(pr.m, Ev("head", cid, env, 0, pr.ex.s, pr.ex, FALSE, {})),
                                   cid))
    IN  Head1(eval(env, lst[1],
                   Log([m EXCEPT !.calls = cid],
                       Ev("call", cid, env, 0, lst[1].s, lst[1], FALSE, {}))))

\* environment.evalProcLambda; lst is lst.Lst
evalProcLambda(env, lst, m) ==
    LET cid == m.calls + 1
        Returned(lambda, lambdaEnv, m1, r) ==
            IF r.panic THEN r
            ELSE ER(r.ex, r.err,
                    Log(r.m, Ev("return", cid, lambdaEnv, m1.heap[lambdaEnv].parent, lambda.s,
                                r.ex, ~r.err.isnil,
                                {f \in 1..Len(m1.heap) :
                                    f # lambdaEnv /\ r.m.heap[f] # m1.heap[f]})))
        InFrame(lambda, args, lambdaEnv, m1) ==
            Returned(lambda, lambdaEnv, m1,
                     evalBody(lambdaEnv, lambda.b, 1, NilExpr,
                              Log(m1, Ev("frame", cid, lambdaEnv, m1.heap[lambdaEnv].parent,
                                         lambda.s, ExprList(args, 0), FALSE, {}))))
        Framed(lambda, as, mk) ==
            InFrame(lambda, as.args, Len(as.m.heap) + 1,
                    [as.m EXCEPT !.heap = Append(@, mk.env), !.out = @ \o mk.out])
        CallLambda(lambda, as) ==
            IF Len(lambda.l) # Len(as.args)
            THEN ER(Void, newError("ErrArityMismatch",
                                   <<lambda.s, strconv_Itoa(Len(lambda.l)),
                                     strconv_Itoa(Len(as.args))>>), as.m)
            ELSE Framed(lambda, as,
                        makeEnvironment(CallFrameParent(env, lambda), lambda.l, as.args))
        Applied(proc, as, b) ==
            IF b.panic
            THEN EPanic(Log(as.m, Ev("apply", cid, env, Len(as.args), proc.s,
                                     ExprList(as.args, 0), FALSE, {})))
            ELSE ER(b.ex, b.err,
                    Log(as.m, Ev("apply", cid, env, Len(as.args), proc.s,
                                 ExprList(as.args, 0), ~b.err.isnil, {})))
        Call(pr, as) ==
            IF as.panic THEN EPanic(as.m)
            ELSE IF ~as.err.isnil THEN ER(Void, as.err, as.m)
            ELSE IF pr.ex.t = "Procedure"
            THEN Applied(pr.ex, as, ApplyFn(pr.ex.s[1], as.args))
            ELSE CallLambda(pr.ex, as)
        Head1(pr) ==
            IF pr.panic THEN pr
            ELSE IF ~pr.err.isnil THEN ER(Void, pr.err, pr.m)
            ELSE IF pr.ex.t \notin {"Procedure", "Lambda"}
            THEN ER(Void, newError("ErrNotAProc", <<String(pr.ex, 0)>>), pr.m)
            ELSE Call(pr, evalArgs(env, lst, 2, <<>>,
                                   Log(pr.m, Ev("head", cid, env, 0, pr.ex.s, pr.ex, FALSE, {})),
                                   cid))
    IN  Head1(eval(env, lst[1],
                   Log([m EXCEPT !.calls = cid],
                       Ev("call", cid, env, 0, lst[1].s, lst[1], FALSE, {}))))

\* environment.evalDefine; lst is lst.Lst
evalDefine(env, lst, m) ==
    LET len == Len(lst)
        \* env.vars[ident] = ex; return ex, nil
        Stored(ident, ex, me, h) ==
            ER(ex, NilErr,
               Log(Log([me EXCEPT !.heap = h],
                       Ev("define", m.calls, env, 0, ident, ex, FALSE,
                          {f \in 1..Len(h) : h[f] # me.heap[f]})),
                   Ev("defret", m.calls, env, 0, ident, ex, FALSE, {})))
        Store(ident, ex, me) == Stored(ident, ex, me, Bind(me.heap, env, ident, ex))
        OfValue(ident, r) ==
            IF r.panic THEN r
            ELSE Store(ident, r.ex,
                       Log(r.m, Ev("defexpr", m.calls, env, 0, ident, r.ex, ~r.err.isnil, {})))
    IN  IF len < 3
        THEN ER(Void, newError("ErrBadSyntax", <<FormStr.Define, FormStr.AtLeast2, strconv_Itoa(len - 1)>>), m)
        ELSE IF len > 3 /\ lst[2].t # "ExprList"
        THEN ER(Void, newError("ErrBadSyntax", <<FormStr.Define, FormStr.ExactlyOne>>), m)
        ELSE
        CASE lst[2].t = "ExprList" ->
                IF Len(lst[2].l) = 0 THEN EPanic(m)
                ELSE IF lst[2].l[1].t = "Variable"
                THEN Store(lst[2].l[1].s,
                           Lambda(lst[2].l[1].s, Tail(lst[2].l), SubSeq(lst, 3, len)), m)
                ELSE ER(Void, newError("ErrBadSyntax",
                                       <<FormStr.Define, FormStr.Identifier, String(lst[2].l[1], 0)>>), m)
          [] lst[2].t = "Variable" -> OfValue(lst[2].s, eval(env, lst[3], m))
          [] OTHER ->
                ER(Void, newError("ErrBadSyntax",
                                  <<FormStr.Define, FormStr.IdentifierOrList, String(lst[2], 0)>>), m)

\* the loop of evalCond over the result clauses of the true clause
evalClauseBody(env, resClauses, i, res, m) ==
    LET Res(r) ==
            IF r.panic THEN r
            ELSE IF ~r.err.isnil THEN ER(Void, r.err, r.m)
            ELSE evalClauseBody(env, resClauses, i + 1, r.ex, r.m)
    IN  IF i > Len(resClauses) THEN ER(res, NilErr, m)
        ELSE Res(eval(env, resClauses[i], m))

\* evalCondFrom as it would be if else were a test like any other; C12
\* tells the two apart
evalCondFromNoElse(env, lst, i, m) ==
    LET Test(c) ==
            IF c.panic THEN c
            ELSE IF ~c.err.isnil THEN ER(Void, c.err, c.m)
            ELSE IF ~IsFalseSym(c.ex)
            THEN evalClauseBody(env, Tail(lst[i].l), 1, Void, c.m)
            ELSE evalCondFrom(env, lst, i + 1, c.m)
    IN  IF i > Len(lst) THEN ER(Void, NilErr, m)
        ELSE IF ~isPair(lst[i])
        THEN ER(Void, newError("ErrBadSyntax", <<FormStr.Cond, FormStr.PairClause, String(lst[i], 0)>>), m)
        ELSE Test(eval(env, lst[i].l[1], m))

\* the loop of evalCond over lst.Lst[1:], from lst[i]
evalCondFrom(env, lst, i, m) ==
    LET Test(c) ==
            IF c.panic THEN c
            ELSE IF ~c.err.isnil THEN ER(Void, c.err, c.m)
            ELSE IF ~IsFalseSym(c.ex)
            THEN evalClauseBody(env, Tail(lst[i].l), 1, Void, c.m)
            ELSE evalCondFrom(env, lst, i + 1, c.m)
    IN  IF i > Len(lst) THEN ER(Void, NilErr, m)
        ELSE IF ~isPair(lst[i])
        THEN ER(Void, newError("ErrBadSyntax", <<FormStr.Cond, FormStr.PairClause, String(lst[i], 0)>>), m)
        ELSE IF lst[i].l[1].t = "Variable" /\ lst[i].l[1].s = FormStr.Else
        THEN evalClauseBody(env, Tail(lst[i].l), 1, Void, m)
        ELSE Test(eval(env, lst[i].l[1], m))

\* environment.evalCond
evalCond(env, lst, m) == evalCondFrom(env, lst, 2, m)

(***************************************************************************)
(* The interpreter and the REPL (interpreter.go, src/unnamed/part_001)     *)
(***************************************************************************)

\* addDefaultDefs: the names and the values of i.genv.vars
DefaultDefs ==
    { <<<<"#","f">>, FalseSym>>
    , <<<<"#","t">>, TrueSym>>
    , <<<<"+">>, Procedure("procAdd")>>
    , <<<<"*">>, Procedure("procMultiply")>>
    , <<<<"-">>, Procedure("procSubtract")>>
    , <<<<"/">>, Procedure("procDivide")>>
    , <<<<"=">>, Procedure("procEquals")>>
    , <<<<"<">>, Procedure("procLess")>>
    , <<<<"<","=">>, Procedure("procLessEq")>>
    , <<<<">">>, Procedure("procGreater")>>
    , <<<<">","=">>, Procedure("procGreaterEq")>>
    , <<<<"n","u","m","b","e","r","?">>, Procedure("procIsNumber")>>
    , <<<<"n","u","l","l","?">>, Procedure("procIsNull")>>
    , <<<<"a","n","d">>, Procedure("procAnd")>>
    , <<<<"o","r">>, Procedure("procOr")>>
    , <<<<"r","e","m","a","i","n","d","e","r">>, Procedure("procRemainder")>>
    , <<<<"q","u","o","t","i","e","n","t">>, Procedure("procQuotient")>>
    , <<<<"e","x","p","t">>, Procedure("procExpt")>>
    , <<<<"l","i","s","t">>, Procedure("procList")>>
    , <<<<"c","o","n","s">>, Procedure("procCons")>>
    , <<<<"c","a","r">>, Procedure("procCar")>>
    , <<<<"c","d","r">>, Procedure("procCdr")>>
    , <<<<"p","a","i","r","?">>, Procedure("procIsPair")>>
    , <<<<"l","i","s","t","?">>, Procedure("procIsList")>>
    , <<<<"m","a","x">>, Procedure("procMax")>>
    , <<<<"m","i","n">>, Procedure("procMin")>>
    }

\* i.genv after MakeInterpreter: no parent, the default definitions
genv ==
    Environment([name \in {d[1] : d \in DefaultDefs} |->
                    (CHOOSE d \in DefaultDefs : d[1] = name)[2]], 0)

\* The lines main reads from stdin; the last one ends at the end of the
\* input, with no newline
Inputs ==
    \* (define (mk x) (define (in y) (+ x y)) in) ((mk 10) 5)
    { <<"(","d","e","f","i","n","e"," ","(","m","k"," ","x",")"," ","(","d",
        "e","f","i","n","e"," ","(","i","n"," ","y",")"," ","(","+"," ","x",
        " ","y",")",")"," ","i","n",")"," ","(","(","m","k"," ","1","0",")",
        " ","5",")","\n">>
    \* ('())
    , <<"(","'","(",")",")","\n">>
    \* (define () 1)
    , <<"(","d","e","f","i","n","e"," ","(",")"," ","1",")","\n">>
    \* (lambda (x) x)
    , <<"(","l","a","m","b","d","a"," ","(","x",")"," ","x",")","\n">>
    \* (and #f (define z 1)) z
    , <<"(","a","n","d"," ","#","f"," ","(","d","e","f","i","n","e"," ","z",
        " ","1",")",")"," ","z","\n">>
    \* (or 1 (define w 2)) w
    , <<"(","o","r"," ","1"," ","(","d","e","f","i","n","e"," ","w"," ","2",
        ")",")"," ","w","\n">>
    \* (define a undefinedvar) a
    , <<"(","d","e","f","i","n","e"," ","a"," ","u","n","d","e","f","i","n",
        "e","d","v","a","r",")"," ","a","\n">>
    \* (define if 5) (if #f 1 2)
    , <<"(","d","e","f","i","n","e"," ","i","f"," ","5",")"," ","(","i","f",
        " ","#","f"," ","1"," ","2",")","\n">>
    \* (define (f if) (if if 1 2)) (f 3)
    , <<"(","d","e","f","i","n","e"," ","(","f"," ","i","f",")"," ","(","i",
        "f"," ","i","f"," ","1"," ","2",")",")"," ","(","f"," ","3",")","\n">>
    \* (car) (define x 1) x
    , <<"(","c","a","r",")"," ","(","d","e","f","i","n","e"," ","x"," ","1",
        ")"," ","x","\n">>
    \* . (define y 2)
    , <<"."," ","(","d","e","f","i","n","e"," ","y"," ","2",")","\n">>
    \* (define x 1) (exit) (define y 2)
    , <<"(","d","e","f","i","n","e"," ","x"," ","1",")"," ","(","e","x","i",
        "t",")"," ","(","d","e","f","i","n","e"," ","y"," ","2",")","\n">>
    \* (+ (define p 1) q (define r 2)) p
    , <<"(","+"," ","(","d","e","f","i","n","e"," ","p"," ","1",")"," ","q",
        " ","(","d","e","f","i","n","e"," ","r"," ","2",")",")"," ","p","\n">>
    \* (load lib)
    , <<"(","l","o","a","d"," ","l","i","b",")","\n">>
    \* (cond (#f 1) (else 2))
    , <<"(","c","o","n","d"," ","(","#","f"," ","1",")"," ","(","e","l","s",
        "e"," ","2",")",")","\n">>
    \* (define (g) x) (define (f x) (g)) (f 1)
    , <<"(","d","e","f","i","n","e"," ","(","g",")"," ","x",")"," ","(","d",
        "e","f","i","n","e"," ","(","f"," ","x",")"," ","(","g",")",")"," ",
        "(","f"," ","1",")","\n">>
    \* '(exit) ((exit))
    , <<"'","(","e","x","i","t",")"," ","(","(","e","x","i","t",")",")","\n">>
    \* (define (h) (define x 2) x) (define x 1) (h) x
    , <<"(","d","e","f","i","n","e"," ","(","h",")"," ","(","d","e","f","i",
        "n","e"," ","x"," ","2",")"," ","x",")"," ","(","d","e","f","i","n",
        "e"," ","x"," ","1",")"," ","(","h",")"," ","x","\n">>
    \* ) (exit)
    , <<")"," ","(","e","x","i","t",")","\n">>
    \* x
    , <<"x">>
    }

\* the number of lines main reads
MaxInputs == 2

\* The prompt of main and the line it prints when the read fails
MainMsg ==
    [ Prompt |->
        <<">"," ">>
    , ErrReading |->
        <<"E","R","R"," ","R","E","A","D","I","N","G",":"," ","E","O",
          "F">>
    ]

\* heap: the environments, heap[1] is i.genv; out: the lines printed;
\* par: the parser of the running Interpret; status: what Interpret returned;
\* pc: where main is; reads: the lines read so far.
\* log and step record the last iteration of Interpret's loop: the events of
\* its evaluation, and the text read, the expression parsed and the result.
VARIABLES heap, out, par, status, pc, reads, log, step

vars == <<heap, out, par, status, pc, reads, log, step>>

Step(kind, text, form, ex, err) ==
    [kind |-> kind, text |-> text, form |-> form, ex |-> ex, err |-> err]

Init ==
    /\ heap = <<genv>>
    /\ out = <<>>
    /\ par = NewLexer(<<>>)
    /\ status = "StatusOk"
    /\ pc = "main"
    /\ reads = 0
    /\ log = <<>>
    /\ step = Step("init", <<>>, NilExpr, NilExpr, NilErr)

\* main: the prompt, reader.ReadString('\n') and the entry of Interpret
MainRead ==
    /\ pc = "main"
    /\ reads < MaxInputs
    /\ \E input \in Inputs :
          /\ out' = out \o <<MainMsg.Prompt>> \o
                    (IF input = <<>> \/ input[Len(input)] # "\n"
                     THEN <<MainMsg.ErrReading>> ELSE <<>>)
          /\ par' = Parse(input)
          /\ step' = Step("read", input, NilExpr, NilExpr, NilErr)
    /\ reads' = reads + 1
    /\ pc' = "interp"
    /\ log' = <<>>
    /\ UNCHANGED <<heap, status>>

\* the text the lexer went over from parser p to parser q
ReadText(p, q) == SubSeq(p.input, p.pos + 1, q.pos)

\* i.genv.eval(expr) in the loop of Interpret, skipped when the parser gave
\* an error; r is what par.Next() returned
Evaluated(r) ==
    IF r.err.isnil
    THEN eval(1, r.ex, [heap |-> heap, log |-> <<>>, out |-> out, calls |-> 0])
    ELSE ER(r.ex, r.err, [heap |-> heap, log |-> <<>>, out |-> out, calls |-> 0])

\* Interpret: the parser has finished
InterpretFinish ==
    /\ pc = "interp"
    /\ \E r \in {Parser_Next(par)} :
          /\ r.ex = NilExpr
          /\ par' = r.p
          /\ step' = Step("finish", ReadText(par, r.p), r.ex, NilExpr, NilErr)
    /\ status' = "StatusOk"
    /\ pc' = "ret"
    /\ log' = <<>>
    /\ UNCHANGED <<heap, out, reads>>

\* Interpret: the expression is the special exit
InterpretExit ==
    /\ pc = "interp"
    /\ \E r \in {Parser_Next(par)} :
          /\ r.ex # NilExpr
          /\ IsSpecialExit(r.ex)
          /\ par' = r.p
          /\ step' = Step("exit", ReadText(par, r.p), r.ex, NilExpr, NilErr)
    /\ out' = Append(out, MsgBye)
    /\ status' = "StatusExitted"
    /\ pc' = "ret"
    /\ log' = <<>>
    /\ UNCHANGED <<heap, reads>>

\* InterpretEval as it would be if an error ended Interpret with StatusError;
\* C5 tells the two apart
InterpretEvalStop ==
    /\ pc = "interp"
    /\ \E r \in {Parser_Next(par)} :
          /\ r.ex # NilExpr
          /\ ~IsSpecialExit(r.ex)
          /\ \E v \in {Evaluated(r)} :
                /\ ~v.panic
                /\ v.ex # NilExpr \/ ~v.err.isnil
                /\ heap' = v.m.heap
                /\ out' = Append(v.m.out,
                                 IF ~v.err.isnil THEN v.err.Val ELSE String(v.ex, 0))
                /\ log' = v.m.log
                /\ step' = Step(IF r.err.isnil THEN "eval" ELSE "parseerr",
                                ReadText(par, r.p), r.ex, v.ex, v.err)
                /\ status' = IF v.err.isnil THEN status ELSE "StatusError"
                /\ pc' = IF v.err.isnil THEN pc ELSE "ret"
          /\ par' = r.p
    /\ UNCHANGED reads

\* Interpret: the expression is evaluated and the error or the value printed
InterpretEval ==
    /\ pc = "interp"
    /\ \E r \in {Parser_Next(par)} :
          /\ r.ex # NilExpr
          /\ ~IsSpecialExit(r.ex)
          /\ \E v \in {Evaluated(r)} :
                /\ ~v.panic
                /\ v.ex # NilExpr \/ ~v.err.isnil
                /\ heap' = v.m.heap
                /\ out' = Append(v.m.out,
                                 IF ~v.err.isnil THEN v.err.Val ELSE String(v.ex, 0))
                /\ log' = v.m.log
                /\ step' = Step(IF r.err.isnil THEN "eval" ELSE "parseerr",
                                ReadText(par, r.p), r.ex, v.ex, v.err)
          /\ par' = r.p
    /\ UNCHANGED <<status, pc, reads>>

\* Interpret: the evaluation panics (or the value printed is nil); nothing
\* recovers, the process dies
InterpretPanic ==
    /\ pc = "interp"
    /\ \E r \in {Parser_Next(par)} :
          /\ r.ex # NilExpr
          /\ ~IsSpecialExit(r.ex)
          /\ \E v \in {Evaluated(r)} :
                /\ v.panic \/ (v.ex = NilExpr /\ v.err.isnil)
                /\ heap' = v.m.heap
                /\ out' = v.m.out
                /\ log' = v.m.log
          /\ par' = r.p
          /\ step' = Step("panic", ReadText(par, r.p), r.ex, NilExpr, NilErr)
    /\ pc' = "panicked"
    /\ UNCHANGED <<status, reads>>

\* main: status != StatusOk breaks the loop
MainBreak ==
    /\ pc = "ret"
    /\ status # "StatusOk"
    /\ pc' = "stopped"
    /\ UNCHANGED <<heap, out, par, status, reads, log, step>>

\* main: the next turn of the loop
MainLoop ==
    /\ pc = "ret"
    /\ status = "StatusOk"
    /\ pc' = "main"
    /\ UNCHANGED <<heap, out, par, status, reads, log, step>>

Next == MainRead \/ InterpretFinish \/ InterpretExit \/ InterpretEval \/ InterpretPanic \/ MainBreak \/ MainLoop

Spec == Init /\ [][Next]_vars


(***************************************************************************)
(* The evaluator, the built-in procedures and the reader taken alone: one  *)
(* call each, on a fresh interpreter.  step holds the call (kind, text,    *)
(* form) and, after it, what it returned (ex, err); pc goes from "call"    *)
(* to "returned" or "panicked".                                            *)
(***************************************************************************)

\* the most arguments given to if
MaxIfArgs == 4

\* the most clauses given to cond
MaxClauses == 3

\* the most parameters of a lambda
MaxParams == 2

\* The expressions the evaluator is called on, as the parser returns them.
\* Marked is (define <name> <expr>): its value is the value of <expr>, and
\* the log shows that it was evaluated.
Forms ==
    LET CallList(head, args) == ExprList(<<head>> \o args, 0)
        Marked(name, expr) == CallList(Variable(FormStr.Define), <<Variable(name), expr>>)
        \* (define m<k> <k>)
        Mark(k) == Marked(<<"m", Digits[k + 1]>>, Number(k, 1, 0))
        \* (if #f 1), which is Void
        VoidExpr == CallList(Variable(FormStr.If), <<Variable(FalseSym.s), Number(1, 1, 0)>>)
        \* #f, '#f, ''#f, 0, '(), #t, 'a and Void
        CondExprs ==
            { Variable(FalseSym.s), FalseSym, Symbol(FalseSym.s, 2), Number(0, 1, 0),
              NullSym, Variable(TrueSym.s), Symbol(<<"a">>, 1), VoidExpr }
        \* (if (define c <cond>) (define m2 2) (define m3 3) ...) with n arguments
        IfForm(cond, n) ==
            CallList(Variable(FormStr.If),
                     [k \in 1..n |-> IF k = 1 THEN Marked(<<"c">>, cond) ELSE Mark(k)])
        IfForms == {IfForm(cond, n) : cond \in CondExprs, n \in 0..MaxIfArgs}
        \* the tests of the clauses: else, #f, 0 and ''#f
        ClauseTests ==
            {Variable(FormStr.Else), Variable(FalseSym.s), Number(0, 1, 0), Symbol(FalseSym.s, 2)}
        \* clause k: ((define t<k> <test>) (define b<k> k) (define e<k> k+4)),
        \* or (else (define b<k> k) (define e<k> k+4))
        Clause(test, k) ==
            ExprList(<<IF test = Variable(FormStr.Else) THEN test
                       ELSE Marked(<<"t", Digits[k + 1]>>, test),
                       Marked(<<"b", Digits[k + 1]>>, Number(k, 1, 0)),
                       Marked(<<"e", Digits[k + 1]>>, Number(k + 4, 1, 0))>>, 0)
        CondForms ==
            UNION {{CallList(Variable(FormStr.Cond), [k \in 1..n |-> Clause(tests[k], k)]) :
                        tests \in [1..n -> ClauseTests]} : n \in 0..MaxClauses}
        \* (define (f p1 ... pn) (define q1 p1) ... (define qn pn) (define z 9)),
        \* whose value is the Lambda f
        LambdaOf(n) ==
            CallList(Variable(FormStr.Define),
                     <<ExprList(<<Variable(<<"f">>)>> \o
                                [i \in 1..n |-> Variable(<<"p", Digits[i + 1]>>)], 0)>>
                     \o [i \in 1..n |->
                            Marked(<<"q", Digits[i + 1]>>, Variable(<<"p", Digits[i + 1]>>))]
                     \o <<Marked(<<"z">>, Number(9, 1, 0))>>)
        \* (<lambda of n parameters> (define a1 1) ... (define ak k))
        LambdaCalls ==
            {CallList(LambdaOf(n), [i \in 1..k |-> Marked(<<"a", Digits[i + 1]>>, Number(i, 1, 0))]) :
                n \in 0..MaxParams, k \in 0..(MaxParams + 1)}
        \* (<head> (define a1 1)) for the heads 5, 'a, '(), '(1) and (if #f 1)
        NotProcCalls ==
            {CallList(head, <<Marked(<<"a", "1">>, Number(1, 1, 0))>>) :
                head \in {Number(5, 1, 0), Symbol(<<"a">>, 1), NullSym,
                          ExprList(<<Number(1, 1, 1), NullSym>>, 1), VoidExpr}}
    IN  IfForms \cup CondForms \cup LambdaCalls \cup NotProcCalls

\* the most arguments given to list, and to a comparison or an arithmetic
\* procedure
MaxListArgs == 2
MaxCompArgs == 3

\* The calls of the built-in procedures: fn is the Fn of the Procedure and
\* args the values evalProcLambda passes
ProcCalls ==
    LET Call(fn, args) == [fn |-> fn, args |-> args]
        \* '(2 3), (list 2 3), (cons 2 3) and ''()
        QuotedList == ExprList(<<Number(2, 1, 1), Number(3, 1, 1), NullSym>>, 1)
        BuiltList == procList(<<Number(2, 1, 0), Number(3, 1, 0)>>).ex
        DottedPair == procCons(<<Number(2, 1, 0), Number(3, 1, 0)>>).ex
        QuotedNull == ExprList(<<NullSym>>, 2)
        Atoms == {Number(1, 1, 0), Symbol(<<"a">>, 1), NullSym}
        Values == Atoms \cup {QuotedList, BuiltList, DottedPair, QuotedNull}
        \* -1, 0, 0.5
        Numbers == {Number(-1, 1, 0), Number(0, 1, 0), Number(1, 2, 0)}
        \* the divisors 0, 0.5, -0.9, 2 and -2
        Divisors == {Number(0, 1, 0), Number(1, 2, 0), Number(-9, 10, 0), Number(2, 1, 0),
                     Number(-2, 1, 0)}
        Lists == {Call("procList", args) : args \in UNION {[1..n -> Atoms] : n \in 0..MaxListArgs}}
        Conses == {Call("procCons", <<x, y>>) : x \in Values, y \in Values}
        Cars == {Call("procCar", <<v>>) : v \in Values}
        Divisions ==
            {Call(fn, <<x, y>>) : fn \in {"procRemainder", "procQuotient"},
                                  x \in {Number(7, 1, 0), Number(-7, 1, 0)}, y \in Divisors}
        Comparisons ==
            {Call(fn, args) :
                fn \in {"procEquals", "procLess", "procLessEq", "procGreater", "procGreaterEq"},
                args \in UNION {[1..n -> Numbers] : n \in 0..MaxCompArgs}}
        Operands == {Number(1, 1, 0), Number(2, 1, 0), Symbol(<<"a">>, 1)}
        Arithmetic ==
            {Call(fn, args) :
                fn \in {"procAdd", "procMultiply", "procSubtract", "procDivide",
                        "procEquals", "procLess", "procLessEq", "procGreater",
                        "procGreaterEq", "procMin", "procMax", "procRemainder",
                        "procQuotient", "procExpt"},
                args \in UNION {[1..n -> Operands] : n \in 1..MaxCompArgs}}
    IN  Lists \cup Conses \cup Cars \cup Divisions \cup Comparisons \cup Arithmetic

\* the most quotes before an expression
MaxQuotes == 2

\* The lines the reader is called on: 5, x and (), then the lists of one or
\* two of these, each under 0 to MaxQuotes quotes
Texts ==
    LET Quotes(k) == [i \in 1..k |-> "'"]
        QuotedOf(S) == {Quotes(k) \o t : k \in 0..MaxQuotes, t \in S}
        ListsOf(S) ==
            {<<"(">> \o a \o <<")">> : a \in S}
                \cup {<<"(">> \o a \o <<" ">> \o b \o <<")">> : a \in S, b \in S}
        Atoms == QuotedOf({<<"5">>, <<"x">>, <<"(", ")">>})
    IN  {t \o <<"\n">> : t \in Atoms \cup QuotedOf(ListsOf(Atoms))}

CallInit ==
    /\ heap = <<genv>>
    /\ out = <<>>
    /\ par = NewLexer(<<>>)
    /\ status = "StatusOk"
    /\ pc = "call"
    /\ reads = 0
    /\ log = <<>>
    /\ \/ \E form \in Forms : step = Step("form", <<>>, form, NilExpr, NilErr)
       \/ \E call \in ProcCalls :
             step = Step("apply", <<call.fn>>, ExprList(call.args, 0), NilExpr, NilErr)
       \/ \E text \in Texts : step = Step("text", text, NilExpr, NilExpr, NilErr)

\* i.genv.eval(expr)
EvalForm ==
    /\ pc = "call"
    /\ step.kind = "form"
    /\ \E v \in {eval(1, step.form, [heap |-> heap, log |-> <<>>, out |-> out, calls |-> 0])} :
          /\ heap' = v.m.heap
          /\ out' = v.m.out
          /\ log' = v.m.log
          /\ step' = [step EXCEPT !.ex = v.ex, !.err = v.err]
          /\ pc' = IF v.panic THEN "panicked" ELSE "returned"
    /\ UNCHANGED <<par, status, reads>>

\* proc.Fn(&args)
ApplyProc ==
    /\ pc = "call"
    /\ step.kind = "apply"
    /\ \E b \in {ApplyFn(step.text[1], step.form.l)} :
          /\ step' = [step EXCEPT !.ex = b.ex, !.err = b.err]
          /\ pc' = IF b.panic THEN "panicked" ELSE "returned"
    /\ UNCHANGED <<heap, out, par, status, reads, log>>

\* NewParser(input) and par.Next(): form is the expression read
ReadExpr ==
    /\ pc = "call"
    /\ step.kind = "text"
    /\ \E r \in {Parser_Next(Parse(step.text))} :
          /\ par' = r.p
          /\ step' = [step EXCEPT !.form = r.ex, !.err = r.err]
    /\ pc' = "read"
    /\ UNCHANGED <<heap, out, status, reads, log>>

\* fmt.Println(ex.String(0)), and the line printed read again: ex is the
\* expression read from it
PrintRead ==
    /\ pc = "read"
    /\ step.form # NilExpr
    /\ step.err.isnil
    /\ out' = Append(out, String(step.form, 0))
    /\ \E r \in {Parser_Next(Parse(String(step.form, 0) \o <<"\n">>))} :
          /\ par' = r.p
          /\ step' = [step EXCEPT !.ex = r.ex, !.err = r.err]
    /\ pc' = "returned"
    /\ UNCHANGED <<heap, status, reads, log>>

CallNext == EvalForm \/ ApplyProc \/ ReadExpr \/ PrintRead

CallSpec == CallInit /\ [][CallNext]_vars

(***************************************************************************)
(* The lexer taken alone: NextToken called again and again on one input.   *)
(* A step is one turn of the loop of NextToken: the state function runs    *)
(* when no token waits in the channel, and a waiting token is received     *)
(* and returned.  par is the lexer, step.text its input, log the values    *)
(* NextToken has returned so far (NilToken for nothing) and reads the      *)
(* number of times it has returned nothing.                                *)
(***************************************************************************)

\* the longest input
MaxLen == 4

\* the calls of NextToken that return nothing, after which it is no longer
\* called
MaxEnds == 2

LexInit ==
    /\ heap = <<>>
    /\ out = <<>>
    /\ status = "StatusOk"
    /\ pc = "lex"
    /\ reads = 0
    /\ log = <<>>
    /\ \E n \in 0..MaxLen :
          \E input \in [1..n -> {"(", ")", " ", "x", "1", "+", ".", "\"", "'"}] :
             /\ par = NewLexer(input)
             /\ step = Step("lex", input, NilExpr, NilExpr, NilErr)

\* NextToken, the default case of the select: l.state = l.state(l).  A
\* state function blocked on the full channel never returns.
RunStateFn ==
    /\ pc = "lex"
    /\ reads < MaxEnds
    /\ par.tokens = <<>>
    /\ ~par.blocked
    /\ par' = RunState(par)
    /\ UNCHANGED <<heap, out, status, pc, reads, log, step>>

\* NextToken, the receive case of the select: the token is returned, or
\* nothing when it is the EOF token
ReceiveToken ==
    /\ pc = "lex"
    /\ reads < MaxEnds
    /\ par.tokens # <<>>
    /\ ~par.blocked
    /\ \E nt \in {NextToken(par)} :
          /\ par' = nt.l
          /\ log' = Append(log, nt.tok)
          /\ reads' = IF nt.tok = NilToken THEN reads + 1 ELSE reads
    /\ UNCHANGED <<heap, out, status, pc, step>>

LexSpec == LexInit /\ [][RunStateFn \/ ReceiveToken]_vars

(***************************************************************************)
(* Interpret called once, on a line that calls no Lambda: a step is one    *)
(* turn of its loop.                                                       *)
(***************************************************************************)

\* the lines of Texts and (exit), then the inputs that end inside a list,
\* inside a string, inside an identifier or after a stray )
InterpretInit ==
    /\ heap = <<genv>>
    /\ out = <<>>
    /\ status = "StatusOk"
    /\ pc = "interp"
    /\ reads = 1
    /\ log = <<>>
    /\ \E input \in Texts \cup
            { <<"(", "e", "x", "i", "t", ")", "\n">>
            , <<"(">>, <<"(", "\n">>, <<"(", "x", " ">>, <<"(", "x">>, <<"(", "(", "x", ")", "\n">>
            , <<"'", "(", "5", " ">>, <<"(", "+", " ", "1", "\n">>
            , <<"\"">>, <<"\"", "x", "\n">>, <<"(", "\"", "x", ")", "\n">>
            , <<")">>, <<")", "\n">>, <<"5", ")", "\n">>, <<"(", "x", ")", ")", "\n">>, <<")", ")", "\n">>
            , <<>>, <<"\n">>, <<"x">>, <<"+", ".", "\n">> } :
          /\ par = Parse(input)
          /\ step = Step("read", input, NilExpr, NilExpr, NilErr)

InterpretSpec ==
    InterpretInit /\ [][InterpretFinish \/ InterpretExit \/ InterpretEval \/ InterpretPanic]_vars

(***************************************************************************)
(* Claims                                                                  *)
(***************************************************************************)

\* C1: no input makes the interpreter panic: Interpret always returns a
\* Status and the process keeps running.  (The code panics on ('()) in
\* eval and on (define () 1) in evalDefine.)
C1_NeverPanics == pc # "panicked"

\* C2: lexical closure: when a Lambda is applied, the parent of the new call
\* frame is the environment the Lambda was created in.  In the log of an
\* evaluation: a Lambda made by one define, found as the head of a call,
\* gets a frame whose parent is the environment of that define.
C2_FrameParentIsDefiningEnv ==
    \A i \in DOMAIN log : \A h \in DOMAIN log : \A j \in DOMAIN log :
        ( /\ log[i].e = "define" /\ log[i].x.t = "Lambda"
          /\ \A k \in DOMAIN log :
                (log[k].e = "define" /\ log[k].x = log[i].x) => log[k].env = log[i].env
          /\ i < h /\ log[h].e = "head" /\ log[h].x = log[i].x
          /\ log[j].e = "frame" /\ log[j].cid = log[h].cid )
        => log[j].i = log[i].env

\* C3: a call list (lambda (<params>...) <body>...) evaluates, as a special
\* form, to a Lambda value, with no error
C3_LambdaIsSpecialForm ==
    ( /\ step.kind = "eval"
      /\ step.form.t = "ExprList" /\ step.form.q = 0 /\ Len(step.form.l) >= 3
      /\ step.form.l[1] = Variable(<<"l", "a", "m", "b", "d", "a">>)
      /\ step.form.l[2].t = "ExprList" )
    => (step.err.isnil /\ step.ex.t = "Lambda")

\* C4: and/or short-circuit: in a call of the procedure and, no operand
\* after the first whose value is #f begins to be evaluated; in a call of
\* or, none after the first whose value is not #f
C4_AndOrShortCircuit ==
    \A h \in DOMAIN log : \A i \in DOMAIN log : \A j \in DOMAIN log :
        ( /\ log[h].e = "head" /\ log[h].x.t = "Procedure"
          /\ log[i].e = "argend" /\ log[i].cid = log[h].cid /\ ~log[i].err
          /\ \/ log[h].x.s = <<"procAnd">> /\ IsFalseSym(log[i].x)
             \/ log[h].x.s = <<"procOr">> /\ ~IsFalseSym(log[i].x)
          /\ log[j].e = "argbegin" /\ log[j].cid = log[h].cid )
        => log[j].i <= log[i].i

C7_DefinePropagatesError ==
    \A i \in DOMAIN log :
        (log[i].e = "defexpr" /\ log[i].err)
        => (i = Len(log) \/ log[i + 1].e # "define")

\* C8: in a call the head is evaluated first, then the arguments strictly
\* left to right (an argument begins only after every earlier one has ended
\* without error), then the procedure is applied; after an argument's error
\* no later argument begins and nothing is applied
C8_HeadThenArgsLeftToRight ==
    \A i \in DOMAIN log : \A j \in DOMAIN log :
        log[i].cid = log[j].cid =>
            /\ (log[i].e = "call" /\ log[j].e \in {"head", "argbegin", "argend", "apply", "frame"})
               => i < j
            /\ (log[i].e = "head" /\ log[j].e \in {"argbegin", "argend", "apply", "frame"})
               => i < j
            /\ (log[i].e = "argbegin" /\ log[j].e = "argbegin" /\ log[i].i < log[j].i)
               => \E k \in (i + 1)..(j - 1) :
                     /\ log[k].e = "argend" /\ log[k].cid = log[i].cid
                     /\ log[k].i = log[i].i /\ ~log[k].err
            /\ (log[i].e = "argend" /\ log[j].e \in {"apply", "frame"})
               => (i < j /\ ~log[i].err)
            /\ (log[i].e = "argend" /\ log[i].err /\ log[j].e = "argbegin")
               => log[j].i <= log[i].i

\* C8 witness: the second argument of a call has failed after the first one
\* made a binding, and the third was never begun
C8_Witness ==
    \E d \in DOMAIN log : \E i \in DOMAIN log :
        /\ d < i
        /\ log[d].e = "define"
        /\ log[i].e = "argend" /\ log[i].err /\ log[i].i = 2
        /\ \E b \in 1..d : log[b].e = "argbegin" /\ log[b].cid = log[i].cid /\ log[b].i = 1
        /\ \E c \in DOMAIN log : log[c].e = "call" /\ log[c].cid = log[i].cid
        /\ ~\E a \in DOMAIN log : log[a].e = "apply" /\ log[a].cid = log[i].cid

\* C9: define changes only the frame of the environment it is evaluated in,
\* and no environment that existed when a Lambda's body began (its
\* ancestors and the global environment among them) has changed when the
\* body ends
C9_DefineChangesOnlyItsFrame ==
    \A i \in DOMAIN log :
        /\ log[i].e = "define" => log[i].set \subseteq {log[i].env}
        /\ log[i].e = "return" => log[i].set = {}

\* C9 witness: a define in a Lambda body has bound, in the call's frame, a
\* name that the global environment binds to another value, and the call
\* has returned
C9_Witness ==
    \E i \in DOMAIN log : \E j \in DOMAIN log :
        /\ i < j
        /\ log[i].e = "define" /\ log[i].env # 1 /\ log[i].set = {log[i].env}
        /\ log[i].name \in DOMAIN heap[1].vars
        /\ heap[1].vars[log[i].name] # log[i].x
        /\ heap[log[i].env].vars[log[i].name] = log[i].x
        /\ log[j].e = "return" /\ log[j].env = log[i].env

\* C10: a call list whose head is the Variable if, define, cond or load is
\* never evaluated as a procedure call, whatever is bound to those names
C10_SpecialFormsNotShadowed ==
    \A i \in DOMAIN log :
        log[i].e = "call" =>
            ~(log[i].x.t = "Variable" /\ log[i].x.s \in {FormStr.If, FormStr.Define, FormStr.Cond, FormStr.Load})

\* C10 witness: the special form if has been dispatched in an environment
\* that binds the name if
C10_Witness ==
    \E i \in DOMAIN log :
        /\ log[i].e = "special" /\ log[i].name = FormStr.If
        /\ FormStr.If \in DOMAIN heap[log[i].env].vars



\* the entries of the log where (define <name> ...) stored its value
Defined(name) == {i \in DOMAIN log : log[i].e = "define" /\ log[i].name = name}

\* the call of the evaluator on a list with this head has ended
CalledForm(head) ==
    /\ pc # "call"
    /\ step.kind = "form"
    /\ Len(step.form.l) > 0
    /\ step.form.l[1] = Variable(head)

StartsWith(s, p) == Len(s) >= Len(p) /\ SubSeq(s, 1, Len(p)) = p

\* C11: if evaluates its condition exactly once and then at most one
\* branch: the else branch iff the value is #f and there is an else, none
\* (the result is Void) when the value is #f and there is no else, the then
\* branch for every other value; with fewer than 2 or more than 3 arguments
\* it returns "if: bad syntax" and evaluates nothing.  The condition and the
\* branches are defines, which the log shows when they are evaluated.
C11_IfEvaluatesOneBranch ==
    CalledForm(<<"i", "f">>) =>
        LET n == Len(step.form.l) - 1
            marks == {k \in 2..n : Defined(<<"m", Digits[k + 1]>>) # {}}
        IN  /\ pc = "returned"
            /\ IF n < 2 \/ n > 3
               THEN /\ ~step.err.isnil
                    /\ StartsWith(step.err.Val,
                                  <<"i","f",":"," ","b","a","d"," ","s","y","n","t","a","x">>)
                    /\ \A i \in DOMAIN log : log[i].e \notin {"define", "defexpr", "find", "call"}
                    /\ heap = <<genv>>
               ELSE /\ Cardinality(Defined(<<"c">>)) = 1
                    /\ step.err.isnil
                    /\ \A k \in marks : Cardinality(Defined(<<"m", Digits[k + 1]>>)) = 1
                    /\ \A i \in Defined(<<"c">>) :
                          IF log[i].x = FalseSym
                          THEN (IF n = 3 THEN marks = {3} /\ step.ex = Number(3, 1, 0)
                                ELSE marks = {} /\ step.ex = Void)
                          ELSE marks = {2} /\ step.ex = Number(2, 1, 0)

\* an if with an else whose condition was #f has been evaluated, and so has
\* its else branch
C11_Witness ==
    /\ CalledForm(<<"i", "f">>)
    /\ Len(step.form.l) = 4
    /\ \E i \in Defined(<<"c">>) : log[i].x = FalseSym
    /\ Defined(<<"m", "3">>) # {}


\* the names the defines of the log stored, in the order of the log
DefinedNames ==
    LET IsDefine(v) == v.e = "define"
        defs == SelectSeq(log, IsDefine)
    IN  [i \in 1..Len(defs) |-> defs[i].name]

\* the test of this clause is else, or an expression whose value is not #f
ClauseMatches(clause) ==
    \/ clause.l[1] = Variable(<<"e", "l", "s", "e">>)
    \/ clause.l[1].l[3] # Variable(<<"#", "f">>)

\* C12: cond tests its clauses in textual order and stops at the first one
\* whose test is else or has a value other than #f: the body of that clause
\* is evaluated in order and its last value returned, nothing of a later
\* clause is evaluated, and with no such clause the result is Void and no
\* body is evaluated.  Tests and bodies are defines: the names the log
\* stored are t1 ... up to the test of the first matching clause, then the
\* two bodies of that clause.
C12_CondFirstMatchingClause ==
    CalledForm(<<"c", "o", "n", "d">>) =>
        LET clauses == Tail(step.form.l)
            matching == {k \in 1..Len(clauses) : ClauseMatches(clauses[k])}
            first == IF matching = {} THEN 0
                     ELSE CHOOSE k \in matching : \A j \in matching : k <= j
            isElse == first # 0 /\ clauses[first].l[1].t = "Variable"
            tested == IF first = 0 THEN Len(clauses) ELSE IF isElse THEN first - 1 ELSE first
            tests == [k \in 1..tested |-> <<"t", Digits[k + 1]>>]
            bodies == IF first = 0 THEN <<>>
                      ELSE << <<"b", Digits[first + 1]>>, <<"e", Digits[first + 1]>> >>
        IN  /\ pc = "returned"
            /\ step.err.isnil
            /\ DefinedNames = tests \o bodies
            /\ step.ex = IF first = 0 THEN Void ELSE Number(first + 4, 1, 0)

\* a cond whose first clause did not match and whose second, no else, did
C12_Witness ==
    /\ CalledForm(<<"c", "o", "n", "d">>)
    /\ Len(step.form.l) = 4
    /\ DefinedNames = << <<"t", "1">>, <<"t", "2">>, <<"b", "2">>, <<"e", "2">> >>
    /\ step.ex = Number(6, 1, 0)


\* the call of the evaluator on ((define (f p1 ... pn) ...) a1 ... ak) has
\* ended
CalledLambda ==
    /\ pc # "call"
    /\ step.kind = "form"
    /\ Len(step.form.l) > 0
    /\ step.form.l[1].t = "ExprList"
    /\ Len(step.form.l[1].l) >= 3
    /\ step.form.l[1].l[1] = Variable(<<"d", "e", "f", "i", "n", "e">>)
    /\ step.form.l[1].l[2].t = "ExprList"

\* C13: applying a Lambda of n parameters (distinct identifiers) to k
\* evaluated arguments: when k # n the call returns an arity-mismatch error,
\* no body expression is evaluated and no call frame is made; when k = n
\* parameter i is bound, in the one call frame, to the value of argument i,
\* and the value of the last body expression is returned.
C13_LambdaExactArity ==
    CalledLambda =>
        LET n == Len(step.form.l[1].l[2].l) - 1
            k == Len(step.form.l) - 1
            frames == {i \in DOMAIN log : log[i].e = "frame"}
        IN  /\ pc = "returned"
            /\ \A i \in 1..k : Cardinality(Defined(<<"a", Digits[i + 1]>>)) = 1
            /\ IF k # n
               THEN /\ ~step.err.isnil
                    /\ StartsWith(step.err.Val,
                                  <<"f",":"," ","a","r","i","t","y"," ","m","i","s","m","a","t","c","h">>)
                    /\ frames = {}
                    /\ Len(heap) = 1
                    /\ Defined(<<"z">>) = {}
                    /\ \A i \in 1..n : Defined(<<"q", Digits[i + 1]>>) = {}
               ELSE /\ step.err.isnil
                    /\ step.ex = Number(9, 1, 0)
                    /\ Cardinality(frames) = 1
                    /\ \A fr \in frames : \A i \in 1..n :
                          /\ <<"p", Digits[i + 1]>> \in DOMAIN heap[log[fr].env].vars
                          /\ heap[log[fr].env].vars[<<"p", Digits[i + 1]>>] = Number(i, 1, 0)
                          /\ \A d \in Defined(<<"q", Digits[i + 1]>>) : log[d].x = Number(i, 1, 0)
                          /\ Defined(<<"q", Digits[i + 1]>>) # {}

\* a Lambda of two parameters was applied to three arguments
C13_Witness ==
    /\ CalledLambda
    /\ Len(step.form.l[1].l[2].l) = 3
    /\ Len(step.form.l) = 4
    /\ Defined(<<"a", "3">>) # {}
    /\ ~step.err.isnil


\* the call of this built-in procedure has ended
Applied(fn) == pc # "call" /\ step.kind = "apply" /\ step.text = <<fn>>

\* C14: list applied to one or more arguments returns an ExprList of qlevel
\* 1 whose last element is NullSym, with the arguments in order before it;
\* applied to no argument it returns NullSym.  (procList returns the
\* argument list evalProcLambda built, whose Qlevel is 0.)
C14_ListIsQuotedList ==
    Applied("procList") =>
        /\ pc = "returned"
        /\ step.err.isnil
        /\ IF step.form.l = <<>> THEN step.ex = NullSym
           ELSE /\ step.ex.t = "ExprList"
                /\ step.ex.l = Append(step.form.l, NullSym)
                /\ step.ex.q = 1


\* C15: cons is inverted by car and cdr: for all values x and y, the car of
\* (cons x y) is x, and its cdr is structurally equal to y and prints like
\* y.  (When y is a list built by list, whose qlevel is 0 (C14), the cdr
\* comes back with qlevel 1.)
C15_ConsCarCdr ==
    Applied("procCons") =>
        /\ pc = "returned"
        /\ step.err.isnil
        /\ procCar(<<step.ex>>) = BR(step.form.l[1], NilErr)
        /\ procCdr(<<step.ex>>) = BR(step.form.l[2], NilErr)
        /\ String(procCdr(<<step.ex>>).ex, 0) = String(step.form.l[2], 0)


\* C16: car returns the first element exactly when its argument is a pair,
\* an ExprList of length >= 2; for every other argument (a number, a
\* symbol, NullSym, an ExprList of length 1 such as the value of ''()) it
\* returns a car contract violation and does not panic.  (procCar tests
\* that the argument is an ExprList, not that it is a pair.)
C16_CarOfNonPairIsError ==
    Applied("procCar") =>
        /\ pc = "returned"
        /\ IF step.form.l[1].t = "ExprList" /\ Len(step.form.l[1].l) >= 2
           THEN step.err.isnil /\ step.ex = step.form.l[1].l[1]
           ELSE /\ ~step.err.isnil
                /\ StartsWith(step.err.Val,
                              <<"c","a","r",":"," ","c","o","n","t","r","a","c","t"," ",
                                "v","i","o","l","a","t","i","o","n">>)


\* C17: print/read round trip: for every expression the parser returns,
\* printing it at outer quote level 0 and parsing the printed line yields an
\* expression structurally equal to it, quote levels included.  (A quoted
\* number prints without its quote.)
C17_PrintReadRoundTrip ==
    (pc = "returned" /\ step.kind = "text") => (step.err.isnil /\ step.ex = step.form)


\* C18: remainder and quotient of two numbers whose divisor truncates to 0
\* as an int64 (0, 0.5, -0.9) return a contract violation; they do not
\* divide and the interpreter does not crash.  (The int64 division by zero
\* panics.)
C18_ZeroDivisorIsError ==
    ( /\ Applied("procRemainder") \/ Applied("procQuotient")
      /\ Len(step.form.l) = 2
      /\ IsNum(step.form.l[1])
      /\ IsNum(step.form.l[2])
      /\ step.form.l[2].n < step.form.l[2].d
      /\ -step.form.l[2].n < step.form.l[2].d )
    => /\ pc = "returned"
       /\ ~step.err.isnil
       /\ \/ StartsWith(step.err.Val,
                        <<"r","e","m","a","i","n","d","e","r",":"," ","c","o","n","t","r","a","c","t",
                          " ","v","i","o","l","a","t","i","o","n">>)
          \/ StartsWith(step.err.Val,
                        <<"q","u","o","t","i","e","n","t",":"," ","c","o","n","t","r","a","c","t",
                          " ","v","i","o","l","a","t","i","o","n">>)


\* the call of the evaluator on a list whose head is a number, a symbol, a
\* quoted list or (if #f 1) has ended
CalledNonProcedure ==
    /\ pc # "call"
    /\ step.kind = "form"
    /\ Len(step.form.l) > 0
    /\ \/ step.form.l[1].t \in {"Number", "Symbol"}
       \/ /\ step.form.l[1].t = "ExprList"
          /\ step.form.l[1].q > 0 \/ step.form.l[1].l[1] = Variable(<<"i", "f">>)

\* C19: applying a head whose value is neither a Procedure nor a Lambda
\* returns an error whose message starts with "application: not a
\* procedure", and none of the call's arguments is evaluated.  (The message
\* built is the given value followed by a "given:" line with no operand.)
C19_NotAProcedureError ==
    CalledNonProcedure =>
        /\ pc = "returned"
        /\ ~step.err.isnil
        /\ Defined(<<"a", "1">>) = {}
        /\ StartsWith(step.err.Val,
                      <<"a","p","p","l","i","c","a","t","i","o","n",":"," ","n","o","t"," ",
                        "a"," ","p","r","o","c","e","d","u","r","e">>)


\* the relation a comparison procedure stands for, on two numbers n/d
Related(fn, a, b) ==
    CASE fn = "procEquals" -> a.n * b.d = b.n * a.d
      [] fn = "procLess" -> a.n * b.d < b.n * a.d
      [] fn = "procLessEq" -> a.n * b.d <= b.n * a.d
      [] fn = "procGreater" -> a.n * b.d > b.n * a.d
      [] fn = "procGreaterEq" -> a.n * b.d >= b.n * a.d

AppliedComparison ==
    /\ pc # "call"
    /\ step.kind = "apply"
    /\ step.text[1] \in {"procEquals", "procLess", "procLessEq", "procGreater", "procGreaterEq"}
    /\ \A i \in DOMAIN step.form.l : IsNum(step.form.l[i])

\* C20: each of =, <, <=, >, >= applied to numbers n1 ... nk returns #t iff
\* the relation holds between every adjacent pair, #f otherwise, and #t for
\* zero or one argument.
C20_ComparisonIsPairwise ==
    AppliedComparison =>
        /\ pc = "returned"
        /\ step.err.isnil
        /\ step.ex = IF \A i \in 1..(Len(step.form.l) - 1) :
                          Related(step.text[1], step.form.l[i], step.form.l[i + 1])
                     THEN TrueSym ELSE FalseSym

\* < on three numbers of which the first two are in order and the last two
\* are not, though the first and the last are
C20_Witness ==
    /\ Applied("procLess")
    /\ Len(step.form.l) = 3
    /\ Related("procLess", step.form.l[1], step.form.l[2])
    /\ ~Related("procLess", step.form.l[2], step.form.l[3])
    /\ Related("procLess", step.form.l[1], step.form.l[3])
    /\ step.ex = FalseSym


\* C21: the token stream ends once: after NextToken has returned nothing,
\* every later call of NextToken on the same lexer returns nothing as well,
\* at paren level 0 and at paren level > 0 alike.
C21_StreamEndsOnce ==
    (pc = "lex") =>
        \A i \in DOMAIN log : \A j \in DOMAIN log :
            (i < j /\ log[i] = NilToken) => log[j] = NilToken

\* C21 at paren level 0 only
C21_StreamEndsOnceAtLevel0 ==
    (pc = "lex" /\ par.level = 0) =>
        \A i \in DOMAIN log : \A j \in DOMAIN log :
            (i < j /\ log[i] = NilToken) => log[j] = NilToken


\* C22: the token queue never holds more than 2 tokens and no emit ever
\* blocks on a full queue: a state function runs only when the queue is
\* empty and emits at most two tokens before it returns.
C22_QueueNeverFull ==
    (pc = "lex") => (Len(par.tokens) <= 2 /\ ~par.blocked)

\* a state function has just emitted two tokens
C22_Witness ==
    /\ pc = "lex"
    /\ Len(par.tokens) = 2
    /\ ~par.blocked


\* the tokens emitted so far, in order: those NextToken has returned (the
\* EOF token stands behind every nothing) and those waiting in the channel
Emitted == log \o par.tokens

OpensEmitted == Cardinality({i \in DOMAIN Emitted : Emitted[i].Typ = "TokenOpenBracket"})

\* the CloseBracket tokens emitted with no unexpected-`)` error behind them
ClosesEmitted ==
    Cardinality({i \in DOMAIN Emitted :
        /\ Emitted[i].Typ = "TokenCloseBracket"
        /\ ~(/\ i < Len(Emitted)
             /\ Emitted[i + 1] = Token("TokenError", LexerMsg.UnexpectedClose))})

\* the number of ( minus the number of ) among the first i runes of s
Depth(s, i) ==
    Cardinality({k \in 1..i : s[k] = "("}) - Cardinality({k \in 1..i : s[k] = ")"})

\* every ( is matched by a later ), and no rune opens a string literal, in
\* which a paren would be text
WellFormed(s) ==
    /\ \A i \in 0..Len(s) : Depth(s, i) >= 0
    /\ Depth(s, Len(s)) = 0
    /\ \A i \in DOMAIN s : s[i] # "\""

DigitRun(s, i) ==
    IF \E k \in (i + 1)..Len(s) : ~ContainsRune(Digits, s[k])
    THEN (CHOOSE k \in (i + 1)..Len(s) :
            /\ ~ContainsRune(Digits, s[k])
            /\ \A j \in (i + 1)..(k - 1) : ContainsRune(Digits, s[j])) - 1 - i
    ELSE Len(s) - i

\* the length of the longest start of s of the shape optional sign, digits,
\* optional . and digits
NumberShape(s) ==
    LET a == IF s # <<>> /\ s[1] \in {"+", "-"} THEN 1 ELSE 0
        b == a + DigitRun(s, a)
    IN  IF b < Len(s) /\ s[b + 1] = "." THEN b + 1 + DigitRun(s, b + 1) ELSE b

\* the first run of the input starts with a sign, a dot or a digit, and
\* NextToken has returned its token
NumberRunLexed ==
    /\ pc = "lex"
    /\ step.text # <<>>
    /\ step.text[1] \in {"+", "-", "."} \/ ContainsRune(Digits, step.text[1])
    /\ log # <<>>

\* a letter or a rune of the extended alphabet follows the number shape
IdentifierRuneFollows ==
    /\ NumberShape(step.text) < Len(step.text)
    /\ \/ IsLetter(step.text[NumberShape(step.text) + 1])
       \/ ContainsRune(extAlpha, step.text[NumberShape(step.text) + 1])

\* the offsets of the whitespace and the ) after the number shape
RunEnds ==
    {k \in (NumberShape(step.text) + 1)..Len(step.text) :
        IsSpace(step.text[k]) \/ step.text[k] = ")"}

\* the first two parts of C24: a Number token has the number shape and no
\* identifier rune behind it, and with an identifier rune behind it the run
\* up to the next whitespace or ) is one Identifier token
C24_NumberOrIdentifier ==
    NumberRunLexed =>
        /\ log[1].Typ = "TokenNumber" =>
              /\ log[1].Val = SubSeq(step.text, 1, NumberShape(step.text))
              /\ ~IdentifierRuneFollows
        /\ (IdentifierRuneFollows /\ RunEnds # {}) =>
              \E k \in RunEnds :
                 /\ \A j \in RunEnds : k <= j
                 /\ log[1] = Token("TokenIdentifier", SubSeq(step.text, 1, k - 1))

\* C24: a run that starts with +, -, . or a digit is one Number token only
\* if it has the shape optional sign, digits, optional . and digits and no
\* letter or extended-alphabet rune follows; when one follows, the run up to
\* the next whitespace or ) is one Identifier token; a sign with no digit
\* after it is an Identifier token, never a Number token.
C24_NumberClassification ==
    /\ C24_NumberOrIdentifier
    /\ (NumberRunLexed /\ ~IdentifierRuneFollows /\ step.text[1] \in {"+", "-"}
          /\ \A k \in 1..NumberShape(step.text) : ~ContainsRune(Digits, step.text[k]))
       => log[1] = Token("TokenIdentifier", SubSeq(step.text, 1, NumberShape(step.text)))


\* an expression the parser has returned: the one read from step.text and,
\* once it is printed and read again, the one read from the printed line
ParsedExprs ==
    IF step.kind # "text" \/ pc = "call" THEN {}
    ELSE IF pc = "read" THEN {step.form}
    ELSE {step.form, step.ex}

\* e holds a Variable inside an ExprList whose qlevel is greater than 0
\* (quoted: e stands inside such a list)
RECURSIVE HoldsQuotedVariable(_, _)
HoldsQuotedVariable(e, quoted) ==
    CASE e.t = "Variable" -> quoted
      [] e.t = "ExprList" ->
            \E i \in DOMAIN e.l : HoldsQuotedVariable(e.l[i], quoted \/ e.q > 0)
      [] OTHER -> FALSE

\* k quotes
QuoteRunes(k) == [i \in 1..k |-> "'"]

\* C25: for every identifier token the parser produces a Variable iff it is
\* read at quote level 0 and otherwise a Symbol carrying that quote level
\* (here the identifier x under k quotes, alone and as the element of a list
\* under j quotes); so no expression tree the parser returns holds a
\* Variable inside an ExprList whose qlevel is greater than 0.
C25_VariableIffQuoteLevel0 ==
    /\ \A e \in ParsedExprs : ~HoldsQuotedVariable(e, FALSE)
    /\ (pc = "read" /\ step.kind = "text") =>
          \A k \in 0..MaxQuotes :
             /\ step.text = QuoteRunes(k) \o <<"x", "\n">> =>
                   step.form = IF k = 0 THEN Variable(<<"x">>) ELSE Symbol(<<"x">>, k)
             /\ \A j \in 0..MaxQuotes :
                   step.text = QuoteRunes(j) \o <<"(">> \o QuoteRunes(k) \o <<"x", ")", "\n">> =>
                      /\ step.form.t = "ExprList"
                      /\ step.form.q = j
                      /\ step.form.l[1] = IF j + k = 0 THEN Variable(<<"x">>)
                                          ELSE Symbol(<<"x">>, j + k)

\* x has been read twice inside a quoted list
C25_Witness ==
    /\ pc = "read"
    /\ step.kind = "text"
    /\ step.text = <<"'", "(", "x", " ", "x", ")", "\n">>
    /\ step.form = ExprList(<<Symbol(<<"x">>, 1), Symbol(<<"x">>, 1), NullSym>>, 1)


\* e is or holds an ExprList of qlevel 0 whose last element is NullSym
RECURSIVE HoldsClosedCallList(_)
HoldsClosedCallList(e) ==
    /\ e.t = "ExprList"
    /\ \/ e.q = 0 /\ e.l # <<>> /\ e.l[Len(e.l)] = NullSym
       \/ \E i \in DOMAIN e.l : HoldsClosedCallList(e.l[i])

\* C26 for the call lists the parser returns
C26_ParsedCallListNotClosed == \A e \in ParsedExprs : ~HoldsClosedCallList(e)

\* C26 for the values of the built-in procedures whose arguments hold no
\* such list
C26_BuiltListNotClosed ==
    (pc = "returned" /\ step.kind = "apply" /\ ~HoldsClosedCallList(step.form))
        => ~HoldsClosedCallList(step.ex)

\* C26: no ExprList with qlevel 0 has NullSym as its last element, neither a
\* call list returned by the parser (also when the last argument of the call
\* is '()) nor an ExprList value produced by a built-in procedure.
C26_CallListNotClosed ==
    /\ C26_ParsedCallListNotClosed
    /\ (pc = "returned" /\ step.kind = "apply") => ~HoldsClosedCallList(step.ex)


\* e is a Special expression or holds one
RECURSIVE HoldsSpecial(_)
HoldsSpecial(e) ==
    \/ e.t = "SpecialExpr"
    \/ e.t = "ExprList" /\ \E i \in DOMAIN e.l : HoldsSpecial(e.l[i])

\* the last turn of the loop of Interpret has passed step.form to eval
PassedToEval == pc # "main" /\ step.kind \in {"eval", "panic"}

\* C27 for the lists passed to eval: none holds a Special expression
C27_NoSpecialInsideEvaluatedList ==
    (PassedToEval /\ step.form.t = "ExprList") => ~HoldsSpecial(step.form)

\* C27: a Special expression (Exit or CloseBracket) never reaches the
\* evaluator: no expression passed to eval is a Special node or holds one.
C27_SpecialNeverEvaluated == PassedToEval => ~HoldsSpecial(step.form)


\* a numeric primitive has been applied to as many arguments as it takes,
\* one of which at least is not a number
AppliedToNonNumber ==
    /\ pc # "call"
    /\ step.kind = "apply"
    /\ step.text[1] \in {"procAdd", "procMultiply", "procSubtract", "procDivide",
                         "procEquals", "procLess", "procLessEq", "procGreater",
                         "procGreaterEq", "procMin", "procMax", "procRemainder",
                         "procQuotient", "procExpt"}
    /\ step.text[1] \in {"procRemainder", "procQuotient", "procExpt"} => Len(step.form.l) = 2
    /\ \E i \in DOMAIN step.form.l : ~IsNum(step.form.l[i])

\* the position of the first argument that is not a number
NonNumberAt ==
    CHOOSE i \in DOMAIN step.form.l :
        /\ ~IsNum(step.form.l[i])
        /\ \A j \in 1..(i - 1) : IsNum(step.form.l[j])

\* the last line of a contract violation that was given x
GivenLine(x) == <<"g", "i", "v", "e", "n", ":", " ">> \o String(x, 0)

\* s ends with e
EndsWith(s, e) == Len(s) >= Len(e) /\ SubSeq(s, Len(s) - Len(e) + 1, Len(s)) = e

\* the comparisons stop at the first pair that fails, with no error if no
\* argument before it was found not to be a number
IsComparison(fn) ==
    fn \in {"procEquals", "procLess", "procLessEq", "procGreater", "procGreaterEq"}

\* C28 for a non-number in the first position
C28_GivenIsFirstArgument ==
    (AppliedToNonNumber /\ NonNumberAt = 1) =>
        /\ pc = "returned"
        /\ ~step.err.isnil
        /\ EndsWith(step.err.Val, GivenLine(step.form.l[1]))

\* C28: when a numeric primitive receives a non-number at argument position
\* i, the contract violation it returns reports as given the printed form of
\* that argument, whatever the position i is.
C28_GivenIsOffendingArgument ==
    AppliedToNonNumber =>
        /\ pc = "returned"
        /\ ~IsComparison(step.text[1]) => ~step.err.isnil
        /\ ~step.err.isnil => EndsWith(step.err.Val, GivenLine(step.form.l[NonNumberAt]))

\* the number of ( the input starts with
OpensBefore(s) ==
    IF \A i \in DOMAIN s : s[i] = "(" THEN Len(s)
    ELSE (CHOOSE i \in DOMAIN s : s[i] # "(" /\ \A j \in 1..(i - 1) : s[j] = "(") - 1

\* the input is some ( and then an identifier that starts with a letter and
\* runs to the end of the input, with no whitespace and no ) in it
EndsInIdentifier(s) ==
    /\ OpensBefore(s) < Len(s)
    /\ IsLetter(s[OpensBefore(s) + 1])
    /\ \A i \in (OpensBefore(s) + 1)..Len(s) : ~IsSpace(s[i]) /\ s[i] # ")"

C30_InterpretPrintsError ==
    (pc = "interp" /\ step.text = <<"x">> /\ step.kind # "read") =>
        /\ step.kind = "parseerr"
        /\ step.err = Error(LexerMsg.ExpectedClose)
        /\ out[Len(out)] = LexerMsg.ExpectedClose


\* what the lexer has left to do before the state function emits a token:
\* the runes not read yet, then the state functions that emit none (the nil
\* state gives way to lexGeneral, lexGeneral to the state function of the
\* rune it has met)
StepsLeft ==
    3 * (Len(par.input) - par.pos)
        + (CASE par.state = "nil" -> 2 [] par.state = "lexGeneral" -> 1 [] OTHER -> 0)

\* C29 for the lexer: every call of NextToken returns after finitely many
\* state-function steps (a step that emits no token leaves less to do), and
\* the end of the stream is reached after finitely many calls (a token is
\* returned for a rune read, two for an unexpected `)`)
C29_NextTokenReturns ==
    /\ [][(pc = "lex" /\ par.tokens = <<>> /\ par'.tokens = <<>>) => StepsLeft' < StepsLeft]_vars
    /\ [](pc = "lex" => (StepsLeft >= 0 /\ (reads = 0 => Len(log) <= 2 * par.pos)))

\* what Interpret has left to read: the runes not read yet and the tokens
\* waiting in the channel
TurnsLeft == 2 * (Len(par.input) - par.pos) + Len(par.tokens)

\* C29 without the Status: every turn of the loop of Interpret ends it, by
\* a return or by a panic, or leaves less to read
C29_InterpretStops ==
    [][pc = "interp" => (pc' \in {"ret", "panicked"} \/ TurnsLeft' < TurnsLeft)]_vars

\* C29: reading always terminates, so Interpret on an input that calls no
\* user-defined Lambda finishes and returns a Status, also when the input
\* ends inside an unclosed list, an unterminated string or after a stray ):
\* every turn of its loop returns a Status or leaves less to read.
C29_InterpretReturns ==
    [][pc = "interp" => (pc' = "ret" \/ (pc' = "interp" /\ TurnsLeft' < TurnsLeft))]_vars
=============================================================================
